---- MODULE Spec2Model ----
(***************************************************************************)
(* Model of ollama_library_api.py: the page parsers, the name helpers and  *)
(* the lookup endpoints with their namespace fallback.                     *)
(*                                                                         *)
(* Python strings are sequences of one-character strings, so that lower(), *)
(* split(), strip() and the `in` test are computed, not assumed.  A        *)
(* document is the record of the elements and attributes the parser's      *)
(* selectors look for; each may be present or absent.                      *)
(***************************************************************************)
EXTENDS Integers, Sequences, FiniteSets, TLC

\* Python's None, kept apart from every string (its only element is no character).
None == <<"None">>

----------------------------------------------------------------------------
(* str methods *)

UpperChars == <<"A","B","C","D","E","F","G","H","I","J","K","L","M",
                "N","O","P","Q","R","S","T","U","V","W","X","Y","Z">>
LowerChars == <<"a","b","c","d","e","f","g","h","i","j","k","l","m",
                "n","o","p","q","r","s","t","u","v","w","x","y","z">>

LowerChar(c) ==
    IF \E i \in DOMAIN UpperChars : UpperChars[i] = c
    THEN LowerChars[CHOOSE i \in DOMAIN UpperChars : UpperChars[i] = c]
    ELSE c

\* str.lower()
Lower(s) == [i \in DOMAIN s |-> LowerChar(s[i])]

\* c in s, for a one-character c
HasChar(s, c) == \E i \in DOMAIN s : s[i] = c

\* index of the first c in s; 0 when there is none
FirstIndex(s, c) ==
    IF HasChar(s, c) THEN CHOOSE i \in DOMAIN s : s[i] = c /\ \A j \in 1..(i-1) : s[j] # c
    ELSE 0

\* index of the last c in s; 0 when there is none
LastIndex(s, c) ==
    IF HasChar(s, c) THEN CHOOSE i \in DOMAIN s : s[i] = c /\ \A j \in (i+1)..Len(s) : s[j] # c
    ELSE 0

\* s.split(c, 1) for an s that holds c: the parts before and after the first c
SplitFirst(s, c) ==
    LET i == FirstIndex(s, c)
    IN  << SubSeq(s, 1, i - 1), SubSeq(s, i + 1, Len(s)) >>

\* s.split(c)[-1]
AfterLast(s, c) == SubSeq(s, LastIndex(s, c) + 1, Len(s))

\* s.split(c): always at least one part, empty parts kept
RECURSIVE Split(_, _)
Split(s, c) ==
    IF ~HasChar(s, c) THEN << s >>
    ELSE << SplitFirst(s, c)[1] >> \o Split(SplitFirst(s, c)[2], c)

\* s.strip(c)
RECURSIVE StripChar(_, _)
StripChar(s, c) ==
    IF s = << >> THEN s
    ELSE IF Head(s) = c THEN StripChar(Tail(s), c)
    ELSE IF s[Len(s)] = c THEN StripChar(SubSeq(s, 1, Len(s) - 1), c)
    ELSE s

\* s.strip()
Strip(s) == StripChar(s, " ")

\* s.split(): split on runs of blanks, no empty parts
SplitWS(s) == SelectSeq(Split(s, " "), LAMBDA p : p # << >>)

\* s.startswith(p)
StartsWith(s, p) == Len(p) <= Len(s) /\ SubSeq(s, 1, Len(p)) = p

\* p in s, for strings
IsSubstring(p, s) ==
    \E i \in 1..(Len(s) + 1) : i + Len(p) - 1 <= Len(s) /\ SubSeq(s, i, i + Len(p) - 1) = p

\* an exception e leaves the function
Raise(e) == [exc |-> e]
Raised(r) == r.exc # "none"

\* s with every occurrence of p removed: s.replace(p, "")
RECURSIVE Remove(_, _)
Remove(s, p) ==
    IF Len(s) < Len(p) \/ p = << >> THEN s
    ELSE IF SubSeq(s, 1, Len(p)) = p THEN Remove(SubSeq(s, Len(p) + 1, Len(s)), p)
    ELSE << Head(s) >> \o Remove(Tail(s), p)

Digits == {"0","1","2","3","4","5","6","7","8","9"}

\* \w of a regular expression, over the characters of the model
IsWordChar(c) == c \in Digits \/ c = "_" \/ \E i \in DOMAIN LowerChars : LowerChar(c) = LowerChars[i]

\* Python truthiness of an Optional[str]: neither None nor ""
Truthy(s) == s # None /\ s # << >>

----------------------------------------------------------------------------
(* string literals of the source *)

S_library == <<"l","i","b","r","a","r","y">>
S_latest == <<"l","a","t","e","s","t">>
S_tags == <<"t","a","g","s">>
S_blobs == <<"b","l","o","b","s">>
S_ollama == <<"o","l","l","a","m","a">>
S_run == <<"r","u","n">>
S_unknown == <<"u","n","k","n","o","w","n">>
S_no_summary == <<"n","o"," ","s","u","m","m","a","r","y">>
SummaryNotFound == <<"S","u","m","m","a","r","y"," ","n","o","t"," ","f","o","u","n","d",".">>
S_unknown_digest == <<"u","n","k","n","o","w","n","-","d","i","g","e","s","t">>
S_NA == <<"N","/","A">>
S_0B == <<"0","B">>
S_dash == <<"-">>
Slash == <<"/">>
Colon == <<":">>

----------------------------------------------------------------------------
(* name helpers *)

\* a naming that qualifies every name, the default namespace included
make_full_model_name_Qualified(namespace, model_base_name) ==
    namespace \o Slash \o model_base_name

make_full_model_name(namespace, model_base_name) ==
    IF namespace = S_library THEN model_base_name
    ELSE namespace \o Slash \o model_base_name

make_full_tag_name(namespace, model_base_name, tag_part) ==
    make_full_model_name(namespace, model_base_name) \o Colon \o tag_part

----------------------------------------------------------------------------
(* parse_gguf_metadata_from_snippet *)

UpperChar(c) ==
    IF \E i \in DOMAIN LowerChars : LowerChars[i] = c
    THEN UpperChars[CHOOSE i \in DOMAIN LowerChars : LowerChars[i] = c]
    ELSE c

\* str.upper()
Upper(s) == [i \in DOMAIN s |-> UpperChar(s[i])]

MiddleDot == "·"

\* the characters of the class [·, ]
IsGgufSeparator(c) == c = MiddleDot \/ c = "," \/ c = " "

\* the length of the longest prefix of s that holds no separator
PartLen(s) ==
    IF \E i \in DOMAIN s : IsGgufSeparator(s[i])
    THEN (CHOOSE i \in DOMAIN s :
             IsGgufSeparator(s[i]) /\ \A j \in 1..(i - 1) : ~IsGgufSeparator(s[j])) - 1
    ELSE Len(s)

\* re.split(r'[·, ]+', s) without the empty parts it gives at the two ends of s:
\* an empty part matches no branch of the loop
RECURSIVE GgufParts(_)
GgufParts(s) ==
    IF s = << >> THEN << >>
    ELSE IF IsGgufSeparator(Head(s)) THEN GgufParts(Tail(s))
    ELSE << SubSeq(s, 1, PartLen(s)) >> \o GgufParts(SubSeq(s, PartLen(s) + 1, Len(s)))

S_arch_key == <<"a","r","c","h",":">>
S_parameters_key == <<"p","a","r","a","m","e","t","e","r","s",":">>
S_quantization_key == <<"q","u","a","n","t","i","z","a","t","i","o","n",":">>

IsDigitChar(c) == c \in Digits
IsLowerLetter(c) == \E i \in DOMAIN LowerChars : LowerChars[i] = c
AllChars(s, Test(_)) == s # << >> /\ \A i \in DOMAIN s : Test(s[i])

\* re.match(r"^\w+$", part)
IsWord(part) == AllChars(part, IsWordChar)

\* \d+(\.\d+)?
IsDecimal(d) ==
    \/ AllChars(d, IsDigitChar)
    \/ \E i \in DOMAIN d :
          /\ d[i] = "."
          /\ AllChars(SubSeq(d, 1, i - 1), IsDigitChar)
          /\ AllChars(SubSeq(d, i + 1, Len(d)), IsDigitChar)

\* re.match(r"^\d+(\.\d+)?[a-z]+$", part)
MatchesParameterCount(part) ==
    \E k \in 1..(Len(part) - 1) :
        IsDecimal(SubSeq(part, 1, k)) /\ AllChars(SubSeq(part, k + 1, Len(part)), IsLowerLetter)

IsQuantSuffixChar(c) == IsLowerLetter(c) \/ c = "_"

\* (_\d+|[a-z_]+)?
IsQuantSuffix(r) ==
    \/ r = << >>
    \/ (Head(r) = "_" /\ AllChars(Tail(r), IsDigitChar))
    \/ AllChars(r, IsQuantSuffixChar)

\* re.match(r"^[fq]\d+(_\d+|[a-z_]+)?$", part)
MatchesQuantCode(part) ==
    /\ part # << >>
    /\ Head(part) \in {"f", "q"}
    /\ \E k \in 2..Len(part) :
          AllChars(SubSeq(part, 2, k), IsDigitChar) /\ IsQuantSuffix(SubSeq(part, k + 1, Len(part)))

\* the enumerated quantization codes of line 677
KnownQuantCodes ==
    { <<"q","2","_","k">>, <<"q","3","_","k","_","s">>, <<"q","3","_","k","_","m">>,
      <<"q","3","_","k","_","l">>, <<"q","4","_","0">>, <<"q","4","_","1">>,
      <<"q","4","_","k","_","s">>, <<"q","4","_","k","_","m">>, <<"q","5","_","0">>,
      <<"q","5","_","1">>, <<"q","5","_","k","_","s">>, <<"q","5","_","k","_","m">>,
      <<"q","6","_","k">>, <<"q","8","_","0">> }

\* metadata = {}: a key that is not in the dict holds None here
NoMetadata == [arch |-> None, parameters |-> None, quantization |-> None]

\* a loop in which a part without a key also replaces what a key has set
GgufBarePart_Overwrites(metadata, part) ==
    IF IsWord(part) /\ ~\E i \in DOMAIN part : IsDigitChar(part[i])
    THEN [metadata EXCEPT !.arch = part]
    ELSE IF MatchesParameterCount(part)
    THEN [metadata EXCEPT !.parameters = Upper(part)]
    ELSE IF MatchesQuantCode(part) \/ part \in KnownQuantCodes
    THEN [metadata EXCEPT !.quantization = Upper(part)]
    ELSE metadata

\* lines 675-677: a part that holds no ':'
GgufBarePart(metadata, part) ==
    IF IsWord(part) /\ metadata.arch = None /\ ~\E i \in DOMAIN part : IsDigitChar(part[i])
    THEN [metadata EXCEPT !.arch = part]
    ELSE IF MatchesParameterCount(part) /\ metadata.parameters = None
    THEN [metadata EXCEPT !.parameters = Upper(part)]
    ELSE IF (MatchesQuantCode(part) \/ part \in KnownQuantCodes) /\ metadata.quantization = None
    THEN [metadata EXCEPT !.quantization = Upper(part)]
    ELSE metadata

\* lines 669-677: one pass of the loop
GgufPart(metadata, part) ==
    IF StartsWith(part, S_arch_key)
    THEN [metadata EXCEPT !.arch = Strip(Remove(part, S_arch_key))]
    ELSE IF StartsWith(part, S_parameters_key)
    THEN [metadata EXCEPT !.parameters = Upper(Strip(Remove(part, S_parameters_key)))]
    ELSE IF StartsWith(part, S_quantization_key)
    THEN [metadata EXCEPT !.quantization = Upper(Strip(Remove(part, S_quantization_key)))]
    ELSE IF ~HasChar(part, ":") THEN GgufBarePart(metadata, part)
    ELSE metadata

RECURSIVE GgufLoop(_, _)
GgufLoop(metadata, parts) ==
    IF parts = << >> THEN metadata
    ELSE GgufLoop(GgufPart(metadata, Head(parts)), Tail(parts))

\* line 680: GGUFMetadata(**metadata) if metadata else None; present is FALSE for None
GgufResult(metadata) ==
    [exc |-> "none", present |-> metadata # NoMetadata, arch |-> metadata.arch,
     parameters |-> metadata.parameters, quantization |-> metadata.quantization]

\* lines 663-680; the snippet is a str or None
parse_gguf_metadata_from_snippet(snippet) ==
    IF ~Truthy(snippet) THEN GgufResult(NoMetadata)
    ELSE GgufResult(GgufLoop(NoMetadata, GgufParts(Strip(Lower(snippet)))))

----------------------------------------------------------------------------
(* float and int: the arithmetic of parse_pull_count and parse_size_str_to_bytes *)

(* A double is man * 2^exp with man below 2^54, or infinity.  man is a list of   *)
(* limbs of 15 bits, lowest first and without leading zeros, because 53 bits are *)
(* beyond the integers of the model; the operations round to nearest, ties to    *)
(* even, as the hardware does.                                                   *)

LimbBits == 15
Limb == 32768

RECURSIVE Pow2(_)
Pow2(n) == IF n = 0 THEN 1 ELSE 2 * Pow2(n - 1)

RECURSIVE NatBig(_)
NatBig(n) == IF n = 0 THEN << >> ELSE << n % Limb >> \o NatBig(n \div Limb)

\* the number b, when it is within the integers of the model
RECURSIVE BigNat(_)
BigNat(b) == IF b = << >> THEN 0 ELSE Head(b) + Limb * BigNat(Tail(b))

\* b * c + carry, for 1 <= c <= Limb
RECURSIVE BigTimes(_, _, _)
BigTimes(b, c, carry) ==
    IF b = << >> THEN NatBig(carry)
    ELSE << (Head(b) * c + carry) % Limb >>
         \o BigTimes(Tail(b), c, (Head(b) * c + carry) \div Limb)

\* b without its leading zeros
RECURSIVE Normal(_)
Normal(b) ==
    IF b = << >> THEN b
    ELSE IF b[Len(b)] = 0 THEN Normal(SubSeq(b, 1, Len(b) - 1))
    ELSE b

\* one step of the long division: hi is the quotient and remainder of the higher limbs
DivStep(low_limb, hi, d) ==
    [q |-> << (Limb * hi.r + low_limb) \div d >> \o hi.q, r |-> (Limb * hi.r + low_limb) % d]

\* quotient and remainder of b by d, for 1 <= d <= 2 * Limb
RECURSIVE BigDivMod(_, _)
BigDivMod(b, d) ==
    IF b = << >> THEN [q |-> << >>, r |-> 0]
    ELSE DivStep(Head(b), BigDivMod(Tail(b), d), d)

\* the number of bits of n < Limb
BitLen(n) == CHOOSE k \in 0..LimbBits : n < Pow2(k) /\ (k = 0 \/ n >= Pow2(k - 1))

\* the number of bits of b
BigLen(b) == IF b = << >> THEN 0 ELSE LimbBits * (Len(b) - 1) + BitLen(b[Len(b)])

\* b * 2^n
ShiftLeft(b, n) ==
    IF b = << >> THEN b
    ELSE [i \in 1..(n \div LimbBits) |-> 0] \o BigTimes(b, Pow2(n % LimbBits), 0)

IsOdd(b) == b # << >> /\ Head(b) % 2 = 1

\* q + 1 when what was cut off is above one half, or is one half with q odd
RoundedTo(q, top, half, lower_bits_set) ==
    IF top > half \/ (top = half /\ (lower_bits_set \/ IsOdd(q))) THEN BigTimes(q, 1, 1) ELSE q

\* qr is the quotient and remainder of the kept limbs by 2^b, low the limbs cut off whole
RoundedShift(qr, low, b, sticky) ==
    IF b >= 1
    THEN RoundedTo(Normal(qr.q), qr.r, Pow2(b - 1), sticky \/ \E i \in DOMAIN low : low[i] # 0)
    ELSE RoundedTo(Normal(qr.q), low[Len(low)], Pow2(LimbBits - 1),
                   sticky \/ \E i \in 1..(Len(low) - 1) : low[i] # 0)

\* p / 2^k for k >= 1, rounded to nearest, ties to even; sticky tells that p itself
\* is the integer part of a number with a fraction
ShiftRightRounded(p, k, sticky) ==
    RoundedShift(BigDivMod(SubSeq(p, k \div LimbBits + 1, Len(p)), Pow2(k % LimbBits)),
                 SubSeq(p, 1, k \div LimbBits), k % LimbBits, sticky)

DoubleBits == 53
\* the shift that sizes the quotient of a decimal literal
ScaleBits == 80
\* the largest exponent of a finite double: a value of 2^1024 or more is infinity
MaxExponent == 1024

Zero == [inf |-> FALSE, man |-> << >>, exp |-> 0]
Infinity == [inf |-> TRUE, man |-> << >>, exp |-> 0]

\* a result of 2^1024 or more overflows to infinity
Overflowed(x) == IF ~x.inf /\ BigLen(x.man) + x.exp > MaxExponent THEN Infinity ELSE x

\* the quotient qr.q, plus one when the remainder is above d / 2, or is d / 2 with an
\* odd quotient
RoundedDivision(qr, d) == RoundedTo(Normal(qr.q), 2 * qr.r, d, FALSE)

\* the double nearest to n / d, given the shift s that makes the quotient 53 bits long
NearestAt(n, d, s) ==
    [inf |-> FALSE, man |-> RoundedDivision(BigDivMod(ShiftLeft(n, s), d), d), exp |-> 0 - s]

\* the double nearest to the quotient q0, remainder r0, of n * 2^ScaleBits by d
NearestScaled(n, d, q0, r0) ==
    IF BigLen(q0) <= ScaleBits + DoubleBits
    THEN NearestAt(n, d, ScaleBits + DoubleBits - BigLen(q0))
    ELSE Overflowed([inf |-> FALSE,
                     man |-> ShiftRightRounded(q0, BigLen(q0) - DoubleBits, r0 # 0),
                     exp |-> BigLen(q0) - DoubleBits - ScaleBits])

NearestOf(n, d, qr) == NearestScaled(n, d, Normal(qr.q), qr.r)

\* the double nearest to n / d, for 1 <= d <= 2 * Limb
NearestQuotient(n, d) ==
    IF n = << >> THEN Zero
    ELSE NearestOf(n, d, BigDivMod(ShiftLeft(n, ScaleBits), d))

\* the double nearest to p * 2^e
RoundProduct(p, e) ==
    IF BigLen(p) <= DoubleBits THEN [inf |-> FALSE, man |-> p, exp |-> e]
    ELSE Overflowed([inf |-> FALSE,
                     man |-> ShiftRightRounded(p, BigLen(p) - DoubleBits, FALSE),
                     exp |-> e + BigLen(p) - DoubleBits])

\* x * (c1 * c2) in double arithmetic, for 1 <= c1, c2 <= Limb
FloatTimes(x, c1, c2) ==
    IF x.inf THEN x
    ELSE RoundProduct(BigTimes(BigTimes(x.man, c1, 0), c2, 0), x.exp)

\* the integer part of a finite x, which int(x) returns
Trunc(x) ==
    IF x.exp >= 0 THEN BigNat(ShiftLeft(x.man, x.exp))
    ELSE BigNat(Normal(BigDivMod(SubSeq(x.man, (0 - x.exp) \div LimbBits + 1, Len(x.man)),
                                 Pow2((0 - x.exp) % LimbBits)).q))

\* int(x): OverflowError for an infinity
FloatToInt(x) == IF x.inf THEN Raise("OverflowError") ELSE [exc |-> "none", value |-> Trunc(x)]

DigitValue(c) == CHOOSE n \in 0..9 : <<"0","1","2","3","4","5","6","7","8","9">>[n + 1] = c

\* int(d) for a d made of digits, within the integers of the model
RECURSIVE DigitsNat(_)
DigitsNat(d) ==
    IF d = << >> THEN 0
    ELSE 10 * DigitsNat(SubSeq(d, 1, Len(d) - 1)) + DigitValue(d[Len(d)])

\* the limbs of the number that the digits d write
RECURSIVE DigitsBig(_)
DigitsBig(d) ==
    IF d = << >> THEN << >>
    ELSE BigTimes(DigitsBig(SubSeq(d, 1, Len(d) - 1)), 10, DigitValue(d[Len(d)]))

\* a literal with more digits before the '.' than the largest double has is infinity
MaxDoubleDigits == 309

\* the digits before the '.', without leading zeros
RECURSIVE IntegerDigits(_)
IntegerDigits(t) ==
    IF t = << >> \/ Head(t) = "." THEN << >>
    ELSE IF Head(t) = "0" THEN IntegerDigits(Tail(t))
    ELSE IF HasChar(t, ".") THEN SubSeq(t, 1, FirstIndex(t, ".") - 1)
    ELSE t

RECURSIVE Pow10(_)
Pow10(n) == IF n = 0 THEN 1 ELSE 10 * Pow10(n - 1)

\* the literals float() takes, over the characters of the model's inputs:
\* digits with at most one '.', blanks around them
IsFloatLiteral(t) ==
    /\ \E i \in DOMAIN t : IsDigitChar(t[i])
    /\ \A i \in DOMAIN t : IsDigitChar(t[i]) \/ t[i] = "."
    /\ \A i, j \in DOMAIN t : (t[i] = "." /\ t[j] = ".") => i = j

\* the number of digits after the '.'
FractionDigits(t) == IF HasChar(t, ".") THEN Len(t) - FirstIndex(t, ".") ELSE 0

\* float(s): ValueError for what is no literal
ParseFloat(s) ==
    IF ~IsFloatLiteral(Strip(s)) THEN Raise("ValueError")
    ELSE [exc |-> "none",
          x |-> IF Len(IntegerDigits(Strip(s))) > MaxDoubleDigits THEN Infinity
                ELSE NearestQuotient(DigitsBig(Remove(Strip(s), <<".">>)),
                                     Pow10(FractionDigits(Strip(s))))]

----------------------------------------------------------------------------
(* parse_pull_count, parse_size_str_to_bytes *)

\* int(float(t) * (1000 * c)): lines 208 and 210, outside the try
ScaledCount(f, c) == IF Raised(f) THEN Raise(f.exc) ELSE FloatToInt(FloatTimes(f.x, 1000, c))

\* lines 211-214: int(t), and 0 for the ValueError of what is no integer; the texts of
\* the model hold no sign and no '_', which int() would take
PlainCount(t) ==
    IF AllChars(t, IsDigitChar) THEN [exc |-> "none", value |-> DigitsNat(t)]
    ELSE [exc |-> "none", value |-> 0]

\* lines 206-214, given the lower-cased text without ',' and outer blanks
CountOf(t) ==
    IF t = << >> THEN [exc |-> "none", value |-> 0]
    ELSE IF HasChar(t, "m") THEN ScaledCount(ParseFloat(Remove(t, <<"m">>)), 1000)
    ELSE IF HasChar(t, "k") THEN ScaledCount(ParseFloat(Remove(t, <<"k">>)), 1)
    ELSE PlainCount(t)

parse_pull_count(pull_str) == CountOf(Strip(Remove(Lower(pull_str), <<",">>)))

\* re.sub(r"[^0-9.]", "", size_str)
DigitsAndDots(size_str) == SelectSeq(size_str, LAMBDA c : IsDigitChar(c) \/ c = ".")

S_KB == <<"K","B">>
S_KIB == <<"K","I","B">>
S_MB == <<"M","B">>
S_MIB == <<"M","I","B">>
S_GB == <<"G","B">>
S_GIB == <<"G","I","B">>
S_TB == <<"T","B">>
S_TIB == <<"T","I","B">>

HasUnit(size_str_upper, unit, unit_i) ==
    IsSubstring(unit, size_str_upper) \/ IsSubstring(unit_i, size_str_upper)

\* val * 1024 * ... * 1024, n times
RECURSIVE Times1024(_, _)
Times1024(val, n) == IF n = 0 THEN val ELSE Times1024(FloatTimes(val, 1024, 1), n - 1)

\* lines 258-266, given val and the upper-cased text; val * 1024 * ... is one
\* multiplication by 1024 after the other
SizeOf(val, size_str_upper) ==
    IF HasUnit(size_str_upper, S_KB, S_KIB) THEN FloatToInt(Times1024(val, 1))
    ELSE IF HasUnit(size_str_upper, S_MB, S_MIB) THEN FloatToInt(Times1024(val, 2))
    ELSE IF HasUnit(size_str_upper, S_GB, S_GIB) THEN FloatToInt(Times1024(val, 3))
    ELSE IF HasUnit(size_str_upper, S_TB, S_TIB) THEN FloatToInt(Times1024(val, 4))
    ELSE FloatToInt(val)

\* lines 253-266: 0 for the ValueError of float(val_str)
SizeOfValue(f, size_str_upper) ==
    IF Raised(f) THEN [exc |-> "none", value |-> 0] ELSE SizeOf(f.x, size_str_upper)

parse_size_str_to_bytes(size_str) ==
    IF size_str = << >> \/ DigitsAndDots(size_str) = << >> THEN [exc |-> "none", value |-> 0]
    ELSE SizeOfValue(ParseFloat(DigitsAndDots(size_str)), Strip(Upper(size_str)))

----------------------------------------------------------------------------
(* parse_relative_date_to_datetime *)

(* A datetime is the ordinal of its day (1 for 0001-01-01, the day of datetime.min), *)
(* the minute of that day, and what is left below the minute.                        *)

MinutesPerDay == 1440
\* date.toordinal() of datetime.min
MinOrdinal == 1

\* dt - timedelta(days, minutes): OverflowError below datetime.min
MinusDelta(dt, days, minutes) ==
    IF dt.day - days + ((dt.minute - minutes) \div MinutesPerDay) < MinOrdinal
    THEN Raise("OverflowError")
    ELSE [exc |-> "none",
          dt |-> [day |-> dt.day - days + ((dt.minute - minutes) \div MinutesPerDay),
                  minute |-> (dt.minute - minutes) % MinutesPerDay,
                  rest |-> dt.rest]]

\* base_time.replace(hour=0, minute=0, second=0, microsecond=0)
Midnight(dt) == [day |-> dt.day, minute |-> 0, rest |-> 0]

S_just_now == <<"j","u","s","t"," ","n","o","w">>
S_moments_ago == <<"m","o","m","e","n","t","s"," ","a","g","o">>
S_yesterday == <<"y","e","s","t","e","r","d","a","y">>
S_ago_word == <<"a","g","o">>
S_minute == <<"m","i","n","u","t","e">>
S_hour == <<"h","o","u","r">>
S_day == <<"d","a","y">>
S_week == <<"w","e","e","k">>
S_month == <<"m","o","n","t","h">>
S_year == <<"y","e","a","r">>
DateUnits == {S_minute, S_hour, S_day, S_week, S_month, S_year}

IsBlank(c) == c = " "

\* the length of the longest prefix of s whose characters pass Test
LeadLen(s, Test(_)) ==
    CHOOSE n \in 0..Len(s) :
        /\ \A i \in 1..n : Test(s[i])
        /\ n = Len(s) \/ ~Test(s[n + 1])

Drop(s, n) == SubSeq(s, n + 1, Len(s))

\* s?\s+ago at the start of s
MatchesAgo(s) ==
    \E k \in {0, 1} :
        /\ k = 1 => s # << >> /\ Head(s) = "s"
        /\ LeadLen(Drop(s, k), IsBlank) >= 1
        /\ StartsWith(Drop(s, k + LeadLen(Drop(s, k), IsBlank)), S_ago_word)

\* (minute|hour|day|week|month|year)s?\s+ago at the start of s: the unit, or None
MatchedUnit(s) ==
    IF \E u \in DateUnits : StartsWith(s, u) /\ MatchesAgo(Drop(s, Len(u)))
    THEN CHOOSE u \in DateUnits : StartsWith(s, u) /\ MatchesAgo(Drop(s, Len(u)))
    ELSE None

\* what follows (\d+)\s+ in s; None when s does not start with digits and blanks
AfterValue(s) ==
    IF LeadLen(s, IsDigitChar) >= 1 /\ LeadLen(Drop(s, LeadLen(s, IsDigitChar)), IsBlank) >= 1
    THEN Drop(s, LeadLen(s, IsDigitChar)
                 + LeadLen(Drop(s, LeadLen(s, IsDigitChar)), IsBlank))
    ELSE None

\* lines 226-234: the branch of the unit
MinusUnits(base_time, value, unit) ==
    IF unit = S_minute THEN MinusDelta(base_time, value \div MinutesPerDay, value % MinutesPerDay)
    ELSE IF unit = S_hour THEN MinusDelta(base_time, value \div 24, (value % 24) * 60)
    ELSE IF unit = S_day THEN MinusDelta(base_time, value, 0)
    ELSE IF unit = S_week THEN MinusDelta(base_time, value * 7, 0)
    ELSE IF unit = S_month THEN MinusDelta(base_time, value * 30, 0)
    ELSE MinusDelta(base_time, value * 365, 0)

\* lines 224-237, for the lower-cased and stripped text
RelativeTo(relative_str, base_time) ==
    IF AfterValue(relative_str) # None /\ MatchedUnit(AfterValue(relative_str)) # None
    THEN MinusUnits(base_time,
                    DigitsNat(SubSeq(relative_str, 1, LeadLen(relative_str, IsDigitChar))),
                    MatchedUnit(AfterValue(relative_str)))
    ELSE [exc |-> "none", dt |-> base_time]

KnownDate(relative_str, base_time) ==
    IF IsSubstring(S_just_now, relative_str) \/ IsSubstring(S_moments_ago, relative_str)
    THEN [exc |-> "none", dt |-> base_time]
    ELSE IF IsSubstring(S_yesterday, relative_str)
    THEN MinusDelta(Midnight(base_time), 1, 0)
    ELSE RelativeTo(relative_str, base_time)

parse_relative_date_to_datetime(relative_str, base_time) ==
    KnownDate(Strip(Lower(relative_str)), base_time)

(* parse_ollama_absolute_date_str *)

S_UTC == <<" ","U","T","C">>
\* the abbreviated month names that %b accepts, in calendar order
MonthNames ==
    << <<"j","a","n">>, <<"f","e","b">>, <<"m","a","r">>, <<"a","p","r">>,
       <<"m","a","y">>, <<"j","u","n">>, <<"j","u","l">>, <<"a","u","g">>,
       <<"s","e","p">>, <<"o","c","t">>, <<"n","o","v">>, <<"d","e","c">> >>
DaysBeforeMonth == << 0, 31, 59, 90, 120, 151, 181, 212, 243, 273, 304, 334 >>
DaysInMonth == << 31, 28, 31, 30, 31, 30, 31, 31, 30, 31, 30, 31 >>

IsLeap(y) == y % 4 = 0 /\ (y % 100 # 0 \/ y % 400 = 0)
MonthLength(y, m) == IF m = 2 /\ IsLeap(y) THEN 29 ELSE DaysInMonth[m]

\* date(y, m, d).toordinal()
Ordinal(y, m, d) ==
    (y - 1) * 365 + ((y - 1) \div 4) - ((y - 1) \div 100) + ((y - 1) \div 400)
    + DaysBeforeMonth[m] + (IF m > 2 /\ IsLeap(y) THEN 1 ELSE 0) + d

\* t is one or two digits with a value in lo..hi: what %d, %I and %M match
IsField(t, lo, hi) ==
    /\ Len(t) \in {1, 2} /\ \A i \in DOMAIN t : IsDigitChar(t[i])
    /\ DigitsNat(t) >= lo /\ DigitsNat(t) <= hi

IsAllDigits(t) == \A i \in DOMAIN t : IsDigitChar(t[i])

\* the text matches '%b %d, %Y %I:%M %p': its fields are separated by blanks, and the
\* day carries the comma and the hour the colon
MatchesFormat(w) ==
    /\ Len(w) = 5
    /\ \E m \in DOMAIN MonthNames : Lower(w[1]) = MonthNames[m]
    /\ Len(w[2]) >= 2 /\ w[2][Len(w[2])] = ","
    /\ IsField(SubSeq(w[2], 1, Len(w[2]) - 1), 1, 31)
    /\ Len(w[3]) = 4 /\ IsAllDigits(w[3])
    /\ Len(Split(w[4], ":")) = 2
    /\ IsField(Split(w[4], ":")[1], 1, 12)
    /\ IsField(Split(w[4], ":")[2], 0, 59)
    /\ Lower(w[5]) \in { <<"a","m">>, <<"p","m">> }

MonthOf(name) == CHOOSE m \in DOMAIN MonthNames : Lower(name) = MonthNames[m]

\* the datetime of the fields; "ValueError" for year 0 and for a day the month does not have
FieldsDate(y, m, d, hour12, minute, pm) ==
    IF y < 1 \/ d > MonthLength(y, m) THEN Raise("ValueError")
    ELSE [exc |-> "none",
          dt |-> [day |-> Ordinal(y, m, d),
                  minute |-> ((hour12 % 12) + (IF pm THEN 12 ELSE 0)) * 60 + minute,
                  rest |-> 0]]

\* datetime.strptime(s, '%b %d, %Y %I:%M %p'), given the fields w of s
Strptime(w) ==
    IF ~MatchesFormat(w) THEN Raise("ValueError")
    ELSE FieldsDate(DigitsNat(w[3]), MonthOf(w[1]),
                    DigitsNat(SubSeq(w[2], 1, Len(w[2]) - 1)),
                    DigitsNat(Split(w[4], ":")[1]), DigitsNat(Split(w[4], ":")[2]),
                    Lower(w[5]) = <<"p","m">>)

\* lines 243-245: the current time when strptime raised ValueError
AbsoluteOrNow(parsed, now) ==
    IF Raised(parsed) THEN [exc |-> "none", dt |-> now] ELSE parsed

\* lines 239-245; now is the clock when the function runs
parse_ollama_absolute_date_str(date_str, now) ==
    AbsoluteOrNow(Strptime(SplitWS(Strip(Remove(date_str, S_UTC)))), now)

(* datetime.isoformat, and the last-updated marker of a page or a listing row *)

DigitChars == <<"0","1","2","3","4","5","6","7","8","9">>

\* the digits of n, at least width of them
RECURSIVE Padded(_, _)
Padded(n, width) ==
    IF n < 10 /\ width <= 1 THEN << DigitChars[n + 1] >>
    ELSE Padded(n \div 10, width - 1) \o << DigitChars[(n % 10) + 1] >>

\* the year of the day with ordinal day; the year is at least (day - 1) \div 366 + 1 and,
\* up to the year 9999, less than YearSpan years above that
YearSpan == 30
YearOf(day) ==
    CHOOSE y \in ((day - 1) \div 366 + 1)..((day - 1) \div 366 + 1 + YearSpan) :
        Ordinal(y, 1, 1) <= day /\ day < Ordinal(y + 1, 1, 1)
MonthIn(y, day) ==
    CHOOSE m \in 1..12 :
        Ordinal(y, m, 1) <= day /\ day < Ordinal(y, m, 1) + MonthLength(y, m)

MicrosPerSecond == 1000000

\* the date part, given the year and the month
IsoDate(y, m, day) ==
    Padded(y, 4) \o <<"-">> \o Padded(m, 2) \o <<"-">> \o Padded(day - Ordinal(y, m, 1) + 1, 2)

\* the time part; rest is in microseconds, printed when the microsecond is not 0
IsoTime(minute, rest) ==
    Padded(minute \div 60, 2) \o <<":">> \o Padded(minute % 60, 2) \o <<":">>
    \o Padded(rest \div MicrosPerSecond, 2)
    \o (IF rest % MicrosPerSecond = 0 THEN << >>
        ELSE <<".">> \o Padded(rest % MicrosPerSecond, 6))

\* dt.isoformat() of a datetime in UTC
IsoFormatIn(y, dt) ==
    IsoDate(y, MonthIn(y, dt.day), dt.day) \o <<"T">> \o IsoTime(dt.minute, dt.rest)
    \o <<"+","0","0",":","0","0">>
IsoFormat(dt) == IsoFormatIn(YearOf(dt.day), dt)

\* the value of the default argument base_time of line 216: the clock when the module
\* was loaded
ImportTime == [day |-> 739923, minute |-> 750, rest |-> 7]

\* lines 323-335 and 421-432, given the datetime that the marker gave
UpdatedRecord(last_updated_str, parsed) ==
    IF Raised(parsed) THEN Raise(parsed.exc)
    ELSE [exc |-> "none", last_updated_str |-> last_updated_str,
          last_updated_iso |-> IsoFormat(parsed.dt)]

\* a parser that reads the relative text whenever the marker is there
LastUpdated_RelativeOnly(updated, title, now) ==
    IF updated = None THEN UpdatedRecord(<< >>, [exc |-> "none", dt |-> now])
    ELSE UpdatedRecord(Strip(updated),
                       parse_relative_date_to_datetime(Strip(updated), ImportTime))

\* lines 323-335 and 421-432: updated is the text of span[x-test-updated], title the title
\* attribute of the enclosing span that has one; None where the element is missing
LastUpdated(updated, title, now) ==
    IF updated = None THEN UpdatedRecord(<< >>, [exc |-> "none", dt |-> now])
    ELSE IF Truthy(title)
    THEN UpdatedRecord(Strip(updated), parse_ollama_absolute_date_str(title, now))
    ELSE UpdatedRecord(Strip(updated),
                       parse_relative_date_to_datetime(Strip(updated), ImportTime))

----------------------------------------------------------------------------
(* parse_model_page_html *)

OLLAMA_COM_BASE_URL == "https://ollama.com"

\* A URL under OLLAMA_COM_BASE_URL with no query and no fragment.
Url(path) == [base |-> OLLAMA_COM_BASE_URL, path |-> path]

\* urlparse(url).path
urlparse_path(url) == url.path

\* urljoin(OLLAMA_COM_BASE_URL, href) for an absolute-path href
urljoin(href) == Url(href)

\* an exception leaving the function
HexChars == {"0","1","2","3","4","5","6","7","8","9","a","b","c","d","e","f",
             "A","B","C","D","E","F"}
MinDigestLen == 12

\* re.match(r"^[0-9a-fA-F]{12,}$", d)
IsDigest(d) == Len(d) >= MinDigestLen /\ \A i \in DOMAIN d : d[i] \in HexChars

\* lines 380-383, 387-390: model_tag_combo split at its first ':'
ModelTagCombo(ns, model_tag_combo) ==
    IF HasChar(model_tag_combo, ":")
    THEN [namespace |-> ns,
          base |-> SplitFirst(model_tag_combo, ":")[1],
          tag |-> SplitFirst(model_tag_combo, ":")[2]]
    ELSE [namespace |-> ns, base |-> model_tag_combo, tag |-> None]

\* lines 373-393, given the lower-cased first two parts of the path
PathBranches(n, ns_or_model, model_or_tag) ==
    IF n >= 3 /\ model_or_tag # S_tags
    THEN ModelTagCombo(ns_or_model, model_or_tag)
    ELSE IF ns_or_model = S_library
    THEN ModelTagCombo(S_library, model_or_tag)
    ELSE [namespace |-> ns_or_model, base |-> model_or_tag, tag |-> None]

PathPartsIdentity(path_parts) ==
    IF Len(path_parts) >= 2
    THEN PathBranches(Len(path_parts), Lower(path_parts[1]), Lower(path_parts[2]))
    ELSE [namespace |-> S_library, base |-> << >>, tag |-> None]

\* lines 368-393: namespace, base name and tag from the path of the page URL
PathIdentity(page_url) ==
    PathPartsIdentity(Split(StripChar(urlparse_path(page_url), "/"), "/"))

\* lines 396-406: the title attribute of a[x-test-model-name][title] against the path
TitleIdentity(has_a, title, namespace, model_base_name) ==
    IF namespace = S_library /\ has_a /\ HasChar(title, "/")
    THEN [namespace |-> SplitFirst(title, "/")[1],
          model_base_name |-> SplitFirst(title, "/")[2]]
    ELSE IF namespace # S_library /\ has_a /\ ~HasChar(title, "/") /\ model_base_name = << >>
    THEN [namespace |-> namespace, model_base_name |-> title]
    ELSE IF model_base_name = << >> /\ has_a
    THEN [namespace |-> namespace, model_base_name |-> title]
    ELSE [namespace |-> namespace, model_base_name |-> model_base_name]

\* title is model_name_a['title'].lower(); u is the identity that the path gave
PageIdentityOf(has_a, title, u) ==
    TitleIdentity(has_a, title, u.namespace, IF has_a THEN title ELSE u.base)

PageIdentity(doc, page_url) ==
    PageIdentityOf(doc.title # None, IF doc.title # None THEN Lower(doc.title) ELSE None,
                   PathIdentity(page_url))

\* lines 409-414
SummaryOrTextarea(summary, stripped, textarea) ==
    IF (stripped = << >> \/ Lower(stripped) = S_no_summary) /\ textarea # None
    THEN textarea
    ELSE summary

SummaryText(summary, textarea) == SummaryOrTextarea(summary, Strip(summary), textarea)

\* a summary that defaults to the empty string where the marker is missing
PageSummary_Empty(doc) ==
    SummaryText(IF doc.summary # None THEN doc.summary ELSE << >>, doc.textarea)

PageSummary(doc) ==
    SummaryText(IF doc.summary # None THEN doc.summary ELSE SummaryNotFound, doc.textarea)

\* lines 437-455: the tag selection section; "KeyError" when the command input
\* carries no value attribute
\* lines 452-455: is the command 'ollama run <expected_full_model_name>'
IsRunCommand(run_command_parts, expected_full_model_name) ==
    /\ Len(run_command_parts) = 3
    /\ run_command_parts[1] = S_ollama
    /\ run_command_parts[2] = S_run
    /\ run_command_parts[3] = expected_full_model_name

\* lines 448-455
CommandTag(tag_command, namespace, model_base_name, active_tag_part) ==
    IF ~Truthy(active_tag_part) /\ Truthy(tag_command) /\ HasChar(tag_command, ":")
    THEN Lower(AfterLast(tag_command, ":"))
    ELSE IF ~Truthy(active_tag_part) /\ Truthy(tag_command)
            /\ IsSubstring(model_base_name, tag_command)
            /\ IsRunCommand(SplitWS(Strip(tag_command)),
                            make_full_model_name(namespace, model_base_name))
    THEN S_latest
    ELSE active_tag_part

\* lines 446-455, given the active tag after the button was read
CommandInput(doc, namespace, model_base_name, active_tag_part) ==
    IF ~doc.section \/ ~doc.has_command
    THEN [exc |-> "none", active_tag_part |-> active_tag_part, tag_command |-> None]
    ELSE IF doc.command_value = None THEN Raise("KeyError")
    ELSE [exc |-> "none",
          active_tag_part |-> CommandTag(doc.command_value, namespace, model_base_name,
                                         active_tag_part),
          tag_command |-> doc.command_value]

TagSelection(doc, namespace, model_base_name, active_tag_part_from_url) ==
    CommandInput(doc, namespace, model_base_name,
                 IF doc.section /\ doc.button # None /\ ~Truthy(active_tag_part_from_url)
                 THEN Lower(doc.button) ELSE active_tag_part_from_url)

S_Updated == <<"U","p","d","a","t","e","d">>
S_ago == <<" ","a","g","o">>

\* re.match(r"\d+ \w+ ago", s)
MatchesNAgo(s) ==
    \E i \in 1..Len(s) : \E j \in (i + 2)..Len(s) :
        /\ \A k \in 1..i : s[k] \in Digits
        /\ s[i + 1] = " "
        /\ \A k \in (i + 2)..j : IsWordChar(s[k])
        /\ j + 4 <= Len(s)
        /\ SubSeq(s, j + 1, j + 4) = S_ago

\* lines 461-469: the caption of the file listing
ListingUpdated(doc) ==
    IF doc.files_updated = None THEN << >>
    ELSE IF IsSubstring(S_Updated, doc.files_updated)
    THEN Strip(Remove(doc.files_updated, S_Updated))
    ELSE IF MatchesNAgo(doc.files_updated) THEN doc.files_updated
    ELSE << >>

\* lines 479-483: the digest of a blob URL
DigestFromParts(url_path_parts, n) ==
    IF n > 1 /\ url_path_parts[n - 1] = S_blobs /\ IsDigest(url_path_parts[n])
    THEN url_path_parts[n]
    ELSE None

DigestFromPath(url_path_parts) == DigestFromParts(url_path_parts, Len(url_path_parts))

DigestFromUrl(blob_url) ==
    DigestFromPath(Split(StripChar(urlparse_path(blob_url), "/"), "/"))

\* lines 472-495: one FileSummary for a row that has an href
FileSummary(file_a, listing_updated_str_fe) ==
    [name |-> IF file_a.name # None THEN Lower(file_a.name) ELSE S_unknown,
     blob_url |-> urljoin(file_a.href),
     digest |-> DigestFromUrl(urljoin(file_a.href)),
     size_str |-> IF file_a.size # None THEN file_a.size ELSE S_0B,
     snippet |-> IF file_a.snippet # None THEN file_a.snippet ELSE << >>,
     updated_str |-> listing_updated_str_fe]

\* lines 458-495: "KeyError" when a file row carries no href
TagFilesSummary(doc) ==
    IF ~doc.has_files THEN [exc |-> "none", files |-> << >>]
    ELSE IF \E i \in DOMAIN doc.files : doc.files[i].href = None THEN Raise("KeyError")
    ELSE [exc |-> "none",
          files |-> [i \in DOMAIN doc.files |-> FileSummary(doc.files[i], ListingUpdated(doc))]]

\* lines 503-522: the loop over the rows of #tags-nav; acc carries active_tag_part
\* and the entries appended so far
\* line 503: the rows that the selector of the loop matches
IsDropdownRow(tag_a_dropdown, namespace) ==
    \/ StartsWith(tag_a_dropdown.href, Slash \o S_library \o Slash)
    \/ StartsWith(tag_a_dropdown.href, Slash \o namespace \o Slash)

\* lines 517-522
TagSummary(tag_a_dropdown, namespace, model_base_name, tag_part_from_dropdown, active_tag_part) ==
    [tag_part |-> tag_part_from_dropdown,
     name_full_tag |-> make_full_tag_name(namespace, model_base_name, tag_part_from_dropdown),
     size_str |-> tag_a_dropdown.size,
     is_active |-> (active_tag_part = tag_part_from_dropdown)]

\* lines 514-522: one pass of the loop body
DropdownStep(tag_a_dropdown, namespace, model_base_name, acc, tag_part_from_dropdown, active_tag_part) ==
    [active_tag_part |-> active_tag_part,
     entries |-> Append(acc.entries,
                        TagSummary(tag_a_dropdown, namespace, model_base_name,
                                   tag_part_from_dropdown, active_tag_part))]

\* lines 506-515
DropdownRowStep(tag_a_dropdown, namespace, model_base_name, acc, tag_part_from_dropdown) ==
    DropdownStep(tag_a_dropdown, namespace, model_base_name, acc, tag_part_from_dropdown,
                 IF ~Truthy(acc.active_tag_part) /\ tag_a_dropdown.highlighted
                 THEN tag_part_from_dropdown ELSE acc.active_tag_part)

RECURSIVE DropdownLoop(_, _, _, _)
DropdownLoop(rows, namespace, model_base_name, acc) ==
    IF rows = << >> THEN acc
    ELSE IF ~IsDropdownRow(Head(rows), namespace) \/ Head(rows).view_all
    THEN DropdownLoop(Tail(rows), namespace, model_base_name, acc)
    ELSE DropdownLoop(Tail(rows), namespace, model_base_name,
                      DropdownRowStep(Head(rows), namespace, model_base_name, acc,
                                      IF Head(rows).tag # None THEN Lower(Head(rows).tag)
                                      ELSE << >>))

\* lines 524-532: the active flags after the loop
ReconcileActive(acc) ==
    IF ~Truthy(acc.active_tag_part) /\ acc.entries # << >>
    THEN [active_tag_part |-> acc.entries[1].tag_part,
          entries |-> [acc.entries EXCEPT ![1].is_active = TRUE]]
    ELSE IF Truthy(acc.active_tag_part)
    THEN [active_tag_part |-> acc.active_tag_part,
          entries |-> [i \in DOMAIN acc.entries |->
                         [acc.entries[i] EXCEPT
                            !.is_active = (acc.entries[i].tag_part = acc.active_tag_part)]]]
    ELSE acc

\* lines 500-532
Dropdown(doc, namespace, model_base_name, active_tag_part) ==
    ReconcileActive(
        IF doc.has_nav
        THEN DropdownLoop(doc.rows, namespace, model_base_name,
                          [active_tag_part |-> active_tag_part, entries |-> << >>])
        ELSE [active_tag_part |-> active_tag_part, entries |-> << >>])

\* lines 537-540
AllTagsPageUrl(doc, namespace, model_base_name) ==
    IF doc.tags_link # None
    THEN urljoin(doc.tags_link)
    ELSE Url(Slash \o namespace \o Slash \o model_base_name \o Slash \o S_tags)

\* lines 534-561: the record, given the tag selection sel, the file entries fs and
\* the reconciled dropdown dd
ModelPageRecord(doc, page_url, namespace, model_base_name, upd, sel, fs, dd) ==
    [exc |-> "none",
     name_full_model |-> make_full_model_name(namespace, model_base_name),
     namespace |-> namespace,
     model_base_name |-> model_base_name,
     active_tag_part |-> dd.active_tag_part,
     active_tag_full_name |->
         IF Truthy(dd.active_tag_part)
         THEN make_full_tag_name(namespace, model_base_name, dd.active_tag_part)
         ELSE None,
     source_url |-> page_url,
     summary |-> PageSummary(doc),
     last_updated_str |-> upd.last_updated_str,
     last_updated_iso |-> upd.last_updated_iso,
     tag_command |-> sel.tag_command,
     tag_files_summary |-> fs.files,
     all_tags_dropdown_summary |-> dd.entries,
     all_tags_page_url |-> AllTagsPageUrl(doc, namespace, model_base_name)]

\* lines 421-561, given the last-updated marker, the tag selection and the file entries
ModelPageBody(doc, page_url, namespace, model_base_name, upd, sel, fs) ==
    IF Raised(upd) THEN Raise(upd.exc)
    ELSE IF Raised(sel) THEN Raise(sel.exc)
    ELSE IF Raised(fs) THEN Raise(fs.exc)
    ELSE ModelPageRecord(doc, page_url, namespace, model_base_name, upd, sel, fs,
                         Dropdown(doc, namespace, model_base_name, sel.active_tag_part))

\* lines 409-561, given the identity id and the tag of the path
ModelPage(doc, page_url, id, active_tag_part_from_url, now) ==
    ModelPageBody(doc, page_url, id.namespace, id.model_base_name,
                  LastUpdated(doc.updated, doc.updated_title, now),
                  TagSelection(doc, id.namespace, id.model_base_name,
                               active_tag_part_from_url),
                  TagFilesSummary(doc))

\* now is the clock when the function runs
parse_model_page_html(doc, page_url, now) ==
    ModelPage(doc, page_url, PageIdentity(doc, page_url), PathIdentity(page_url).tag, now)

----------------------------------------------------------------------------
(* parse_all_tags_page_html *)

\* a row match that compares the displayed name with its letter case kept
MatchTagName_CaseKept(full_tag_name_text_raw, expected_full_model_name) ==
    IF HasChar(full_tag_name_text_raw, ":")
    THEN IF SplitFirst(full_tag_name_text_raw, ":")[1] = expected_full_model_name
         THEN SplitFirst(full_tag_name_text_raw, ":")[2]
         ELSE None
    ELSE IF full_tag_name_text_raw = expected_full_model_name
         THEN S_latest
         ELSE None

\* lines 570-585: the tag part of a row, or None when the row is skipped
\* lines 575-585
MatchTagName(full_tag_name_text_raw, expected_full_model_name) ==
    IF HasChar(full_tag_name_text_raw, ":")
    THEN IF Lower(SplitFirst(full_tag_name_text_raw, ":")[1]) = expected_full_model_name
         THEN SplitFirst(full_tag_name_text_raw, ":")[2]
         ELSE None
    ELSE IF Lower(full_tag_name_text_raw) = expected_full_model_name
         THEN S_latest
         ELSE None

RowTagPart(item_li, model_namespace, model_base_name_in) ==
    IF ~item_li.has_anchor \/ item_li.href = None THEN None
    ELSE MatchTagName(item_li.text,
                      Lower(make_full_model_name(model_namespace, model_base_name_in)))

\* lines 588-644, for a row that is kept: the columns of the wide layout
\* a column that holds '-' or nothing is absent
OptionalColumn(v) == IF v = S_dash \/ v = << >> THEN None ELSE v

TagDetailItem(item_li, model_namespace, model_base_name_in, tag_part) ==
    [name_full_tag |-> make_full_tag_name(model_namespace, model_base_name_in, tag_part),
     tag_part |-> tag_part,
     source_url |-> urljoin(item_li.href),
     digest |-> IF item_li.digest # None THEN item_li.digest ELSE S_unknown_digest,
     size_str |-> IF Len(item_li.cols) > 1 THEN item_li.cols[2] ELSE S_NA,
     context_window_str |->
         IF Len(item_li.cols) > 2 THEN OptionalColumn(item_li.cols[3]) ELSE None,
     input_type |-> IF Len(item_li.cols) > 3 THEN OptionalColumn(item_li.cols[4]) ELSE None,
     modified_str |-> IF Len(item_li.cols) > 4 THEN item_li.cols[5] ELSE S_NA,
     is_default |-> item_li.default_badge]

\* lines 569-644: the items that one row adds to tags_list
TagItems(item_li, model_namespace, model_base_name_in, tag_part) ==
    IF tag_part = None THEN << >>
    ELSE << TagDetailItem(item_li, model_namespace, model_base_name_in, tag_part) >>

RECURSIVE TagsList(_, _, _)
TagsList(list_items, model_namespace, model_base_name_in) ==
    IF list_items = << >> THEN << >>
    ELSE TagItems(Head(list_items), model_namespace, model_base_name_in,
                  RowTagPart(Head(list_items), model_namespace, model_base_name_in))
         \o TagsList(Tail(list_items), model_namespace, model_base_name_in)

parse_all_tags_page_html(doc, page_url, model_namespace, model_base_name_in) ==
    [exc |-> "none",
     name_full_model |-> make_full_model_name(model_namespace, model_base_name_in),
     namespace |-> model_namespace,
     model_base_name |-> model_base_name_in,
     tags_page_url |-> page_url,
     tags |-> TagsList(doc.items, model_namespace, model_base_name_in)]

----------------------------------------------------------------------------
(* parse_model_listing_item, parse_list_or_search_page_html *)

\* lines 281-287, given the parts of the path
ListingPartsIdentity(path_parts) ==
    IF Len(path_parts) >= 2
    THEN [namespace |-> IF Lower(path_parts[1]) = S_library THEN S_library
                        ELSE Lower(path_parts[1]),
          model_base_name |-> Lower(path_parts[2])]
    ELSE [namespace |-> S_library, model_base_name |-> << >>]

\* lines 277-287
ListingPathIdentity(source_url) ==
    ListingPartsIdentity(Split(StripChar(urlparse_path(source_url), "/"), "/"))

\* lines 292-298: full_name_from_title is the text of the title span
TitleSpanIdentity(full_name_from_title, id) ==
    IF HasChar(full_name_from_title, "/")
    THEN [namespace |-> Lower(SplitFirst(full_name_from_title, "/")[1]),
          model_base_name |-> Lower(SplitFirst(full_name_from_title, "/")[2])]
    ELSE IF id.namespace = S_library
    THEN [id EXCEPT !.model_base_name = Lower(full_name_from_title)]
    ELSE id

\* lines 290-298: the text of h2 span[x-test-search-response-title]
ListingTitleIdentity(item_li, id) ==
    IF item_li.h2 # None /\ item_li.title_span
    THEN TitleSpanIdentity(item_li.h2, id)
    ELSE id

\* lines 303-307: full_name_from_title_attr is the lower-cased title attribute
TitleAttrIdentity(full_name_from_title_attr, id) ==
    IF HasChar(full_name_from_title_attr, "/")
    THEN [exc |-> "none",
          namespace |-> SplitFirst(full_name_from_title_attr, "/")[1],
          model_base_name |-> SplitFirst(full_name_from_title_attr, "/")[2]]
    ELSE [exc |-> "none", namespace |-> id.namespace,
          model_base_name |-> full_name_from_title_attr]

\* lines 300-307: the title attribute of div[x-test-model-title];
\* "AttributeError" when the h2 that line 300 reads is missing
ListingTitleAttr(item_li, id) ==
    IF id.model_base_name # << >> /\ id.namespace # S_library /\ item_li.h2 = None
    THEN Raise("AttributeError")
    ELSE IF (id.model_base_name = << >>
             \/ (id.namespace # S_library /\ ~HasChar(item_li.h2, "/")))
            /\ item_li.title_div # None
    THEN TitleAttrIdentity(Lower(item_li.title_div), id)
    ELSE [exc |-> "none", namespace |-> id.namespace, model_base_name |-> id.model_base_name]

\* lines 310-353, given the identity id and the last-updated marker upd
ListingItem(item_li, source_url, id, upd) ==
    IF Raised(id) THEN Raise(id.exc)
    ELSE IF id.model_base_name = << >> THEN [exc |-> "none", kept |-> FALSE]
    ELSE IF Raised(upd) THEN Raise(upd.exc)
    ELSE [exc |-> "none", kept |-> TRUE,
          item |-> [source_url |-> source_url,
                    namespace |-> id.namespace,
                    model_base_name |-> id.model_base_name,
                    name_full_model |-> make_full_model_name(id.namespace, id.model_base_name),
                    last_updated_str |-> upd.last_updated_str,
                    last_updated_iso |-> upd.last_updated_iso,
                    capabilities |-> [i \in DOMAIN item_li.capabilities |->
                                         Lower(item_li.capabilities[i])]]]

\* lines 270-353; kept is FALSE where the function returns None
parse_model_listing_item(item_li, now) ==
    IF item_li.href = None THEN [exc |-> "none", kept |-> FALSE]
    ELSE ListingItem(item_li, urljoin(item_li.href),
                     ListingTitleAttr(item_li,
                         ListingTitleIdentity(item_li,
                             ListingPathIdentity(urljoin(item_li.href)))),
                     LastUpdated(item_li.updated, item_li.updated_title, now))

\* lines 359-363: one row, then the rows after it
ListingCons(parsed_item, rest) ==
    IF Raised(parsed_item) THEN Raise(parsed_item.exc)
    ELSE IF Raised(rest) THEN Raise(rest.exc)
    ELSE IF ~parsed_item.kept THEN rest
    ELSE [exc |-> "none", items |-> << parsed_item.item >> \o rest.items]

RECURSIVE ListingLoop(_, _)
ListingLoop(list_items, now) ==
    IF list_items = << >> THEN [exc |-> "none", items |-> << >>]
    ELSE ListingCons(parse_model_listing_item(Head(list_items), now),
                     ListingLoop(Tail(list_items), now))

parse_list_or_search_page_html(doc, now) == ListingLoop(doc.items, now)

----------------------------------------------------------------------------
(* inputs: request tokens, URLs and documents *)

\* the longest list of rows (dropdown rows, file rows, tag rows, listing rows) in a document
MaxRows == 2

T_Library == <<"L","i","b","r","a","r","y">>
T_bob == <<"b","o","b">>
T_Bob == <<"B","o","b">>
T_m == <<"m">>
T_M == <<"M">>
T_t == <<"t">>
T_T == <<"T">>
T_U2 == <<"U","2">>
T_u == <<"u">>
T_params == <<"p","a","r","a","m","s">>
T_Params == <<"P","a","r","a","m","s">>
T_model == <<"m","o","d","e","l">>
T_template == <<"t","e","m","p","l","a","t","e">>
T_readme == <<"r","e","a","d","m","e">>
T_digest == <<"0","1","2","3","4","5","6","7","8","9","a","b">>
T_DigestPrefix == <<"0","1","2","3">>
T_zz == <<"z","z">>
T_txt == <<"t","x","t">>
T_size == <<"1","G","B">>

Namespaces == {S_library, T_Library, T_bob, T_Bob}
BaseNames == {T_m, T_M}
TagParts == {T_t, T_T}
BlobIdentifiers == {T_params, T_Params, T_model, T_template, T_readme, T_DigestPrefix}

\* every sequence over S of length at most n
RECURSIVE SeqsUpTo(_, _)
SeqsUpTo(S, n) ==
    IF n = 0 THEN { << >> }
    ELSE LET shorter == SeqsUpTo(S, n - 1)
         IN  shorter \cup { Append(q, x) : q \in { r \in shorter : Len(r) = n - 1 }, x \in S }

NoDoc == [kind |-> "none"]

\* rows of #tags-nav
DropdownRow(href, tag, highlighted, view_all) ==
    [href |-> href, tag |-> tag, size |-> T_size, highlighted |-> highlighted,
     view_all |-> view_all]
DropdownRows ==
    { DropdownRow(<<"/","l","i","b","r","a","r","y","/","m",":","t">>, T_t, FALSE, FALSE),
      DropdownRow(<<"/","l","i","b","r","a","r","y","/","m",":","T">>, T_T, TRUE, FALSE),
      DropdownRow(<<"/","l","i","b","r","a","r","y","/","m",":","u">>, T_u, TRUE, FALSE),
      DropdownRow(<<"/","l","i","b","r","a","r","y","/","m">>, None, TRUE, FALSE),
      DropdownRow(<<"/","b","o","b","/","m",":","u">>, T_u, FALSE, FALSE),
      DropdownRow(<<"/","z","e","d","/","m",":","u">>, T_u, TRUE, FALSE),
      DropdownRow(<<"/","l","i","b","r","a","r","y","/","m","/","t","a","g","s">>, None, FALSE, TRUE) }

\* rows of the file explorer
FileRow(name, href, snippet) == [name |-> name, href |-> href, size |-> T_size, snippet |-> snippet]
FileRows ==
    { FileRow(T_Params, <<"/","l","i","b","r","a","r","y","/","m",":","t","/","b","l","o","b","s","/","0","1","2","3","4","5","6","7","8","9","a","b">>, T_txt),
      FileRow(T_model, <<"/","l","i","b","r","a","r","y","/","m",":","t","/","b","l","o","b","s","/","0","1","2","3","4","5","6","7","8","9","a","b">>, <<"l","l","a","m","a"," ","7","b">>),
      FileRow(T_template, <<"/","l","i","b","r","a","r","y","/","m",":","t","/","b","l","o","b","s","/","0","1","2","3","4","5","6","7","8","9","a","b">>, T_txt),
      FileRow(T_readme, <<"/","l","i","b","r","a","r","y","/","m",":","t","/","f","i","l","e","s","/","r","e","a","d","m","e">>, T_txt),
      FileRow(None, <<"/","l","i","b","r","a","r","y","/","m",":","t","/","b","l","o","b","s","/","x","y","z">>, None),
      FileRow(T_params, None, T_txt) }

\* the tag selection section: absent, or with a button label and a command input
Selection(section, button, has_command, command_value) ==
    [section |-> section, button |-> button, has_command |-> has_command,
     command_value |-> command_value]
Selections ==
    { Selection(FALSE, None, FALSE, None),
      Selection(TRUE, T_U2, FALSE, None),
      Selection(TRUE, None, TRUE, None),
      Selection(TRUE, None, TRUE, <<"o","l","l","a","m","a"," ","r","u","n"," ","m">>),
      Selection(TRUE, None, TRUE, <<"o","l","l","a","m","a"," ","r","u","n"," ","b","o","b","/","m",":","T">>),
      Selection(TRUE, T_U2, TRUE, <<"o","l","l","a","m","a"," ","r","u","n"," ","m",":","t">>) }

Titles == { None, T_M, <<"B","o","b","/","M">> }
Summaries == { None, << >>, <<"N","o"," ","S","u","m","m","a","r","y">>, T_txt }
Textareas == { None, <<"t","a">> }
FileCaptions == { None, <<"U","p","d","a","t","e","d"," ","2"," ","d","a","y","s"," ","a","g","o">>, <<"3"," ","w","e","e","k","s"," ","a","g","o">> }
TagsLinks == { None, <<"/","l","i","b","r","a","r","y","/","m","/","t","a","g","s">> }

PageDoc(title, summary, textarea, sel, files_updated, files, rows, tags_link) ==
    [kind |-> "page", title |-> title, summary |-> summary, textarea |-> textarea,
     section |-> sel.section, button |-> sel.button, has_command |-> sel.has_command,
     command_value |-> sel.command_value,
     has_files |-> files # << >> \/ files_updated # None,
     files_updated |-> files_updated, files |-> files,
     has_nav |-> rows # << >>, rows |-> rows, tags_link |-> tags_link,
     updated |-> None, updated_title |-> None]

NoSelection == Selection(FALSE, None, FALSE, None)

\* documents that vary the title, the tag selection and the dropdown rows
ActiveTagDocs(n) ==
    { PageDoc(title, T_txt, None, sel, None, << >>, rows, None) :
        title \in Titles, sel \in Selections, rows \in SeqsUpTo(DropdownRows, n) }
\* documents that vary the summary markers
SummaryDocs ==
    { PageDoc(title, summary, textarea, NoSelection, None, << >>, << >>, tags_link) :
        title \in Titles, summary \in Summaries, textarea \in Textareas,
        tags_link \in TagsLinks }
\* documents that vary the file explorer
FileDocs(n) ==
    { PageDoc(None, T_txt, None, NoSelection, files_updated, files, << >>, None) :
        files_updated \in FileCaptions, files \in SeqsUpTo(FileRows, n) }

\* the last-updated marker: its text, and the title attribute of the span around it
Marker(text, title) == [text |-> text, title |-> title]
Markers ==
    { Marker(<<" ","2"," ","d","a","y","s"," ","a","g","o">>, None),
      Marker(<<"2"," ","d","a","y","s"," ","a","g","o">>, << >>),
      Marker(<<"2"," ","d","a","y","s"," ","a","g","o">>, <<"N","o","v"," ","1",","," ","2","0","2","6"," ","9",":","0","5"," ","P","M"," ","U","T","C">>),
      Marker(<<"y","e","s","t","e","r","d","a","y">>, <<"F","e","b"," ","3","0",","," ","2","0","2","6"," ","1",":","0","0"," ","P","M">>),
      Marker(<<"3","0","0","0"," ","y","e","a","r","s"," ","a","g","o">>, None),
      Marker(<< >>, None) }
\* documents that vary the last-updated marker
UpdatedDocs ==
    { [PageDoc(None, T_txt, None, NoSelection, None, << >>, << >>, None)
         EXCEPT !.updated = m.text, !.updated_title = m.title] : m \in Markers }

PageDocs(n) == ActiveTagDocs(n) \cup SummaryDocs \cup FileDocs(n) \cup UpdatedDocs

PageUrls ==
    { Url(<<"/","l","i","b","r","a","r","y","/","m">>), Url(<<"/","l","i","b","r","a","r","y","/","M",":","T">>), Url(<<"/","b","o","b","/","m">>),
      Url(<<"/","B","o","b","/","m",":","t">>), Url(<<"/","m">>), Url(<<"/","b","o","b","/","m",":","t","/","b","l","o","b","s">>) }

\* rows of an all-tags page
WideCols == << << >>, T_size, S_dash, <<"T","e","x","t">>, <<"2"," ","d","a","y","s"," ","a","g","o">> >>
TagRow(has_anchor, href, text, cols) ==
    [has_anchor |-> has_anchor, href |-> href, text |-> text, digest |-> T_digest,
     cols |-> cols, default_badge |-> FALSE]
TagRows ==
    { TagRow(TRUE, <<"/","l","i","b","r","a","r","y","/","m",":","t">>, <<"m",":","t">>, WideCols),
      TagRow(TRUE, <<"/","l","i","b","r","a","r","y","/","m",":","T">>, <<"M",":","T">>, WideCols),
      TagRow(TRUE, <<"/","l","i","b","r","a","r","y","/","m">>, <<"m">>, << >>),
      TagRow(TRUE, <<"/","b","o","b","/","m",":","t">>, <<"B","o","b","/","m",":","u">>, WideCols),
      TagRow(TRUE, <<"/","b","o","b","/","m">>, <<"b","o","b","/","M">>, << >>),
      TagRow(TRUE, <<"/","l","i","b","r","a","r","y","/","q",":","t">>, <<"q",":","t">>, WideCols),
      TagRow(TRUE, None, <<"m",":","u">>, WideCols),
      TagRow(FALSE, None, << >>, << >>) }

TagsDocs(n) == { [kind |-> "tags", items |-> items] : items \in SeqsUpTo(TagRows, n) }

\* rows of a listing page
ListingRow(href, h2, title_span, title_div, capabilities) ==
    [href |-> href, h2 |-> h2, title_span |-> title_span, title_div |-> title_div,
     capabilities |-> capabilities, updated |-> None, updated_title |-> None]
ListingRows ==
    { ListingRow(<<"/","l","i","b","r","a","r","y","/","m">>, T_M, TRUE, None, << <<"V","i","s","i","o","n">> >>),
      ListingRow(<<"/","b","o","b","/","m">>, <<"B","o","b","/","M">>, TRUE, None, << >>),
      ListingRow(<<"/","B","o","b","/","M">>, None, FALSE, None, << >>),
      ListingRow(None, T_m, TRUE, None, << >>),
      ListingRow(<<"/","m">>, None, FALSE, <<"B","o","b","/","M">>, << <<"t","o","o","l","s">> >>),
      ListingRow(<<"/","m">>, None, FALSE, None, << >>),
      ListingRow(<<"/","b","o","b","/","m">>, T_m, FALSE, <<"Z","e","d","/","Q">>, << >>) }

\* rows that vary the last-updated marker
UpdatedRows ==
    { [ListingRow(<<"/","l","i","b","r","a","r","y","/","m">>, T_M, TRUE, None, << >>)
         EXCEPT !.updated = m.text, !.updated_title = m.title] : m \in Markers }

ListingDocs(n) ==
    { [kind |-> "listing", items |-> items] : items \in SeqsUpTo(ListingRows, n) }
    \cup { [kind |-> "listing", items |-> << r >>] : r \in UpdatedRows }

\* the text a normalizer is called on, and the base time of the date normalizer
TextInput(text, base_time) == [kind |-> "text", text |-> text, base_time |-> base_time]
NoTime == [day |-> 0, minute |-> 0, rest |-> 0]

\* the longest list of parts in a metadata snippet
MaxSnippetParts == 3

RECURSIVE JoinParts(_, _)
JoinParts(parts, sep) ==
    IF parts = << >> THEN << >>
    ELSE IF Len(parts) = 1 THEN Head(parts)
    ELSE Head(parts) \o sep \o JoinParts(Tail(parts), sep)

\* parts of a snippet: keys with and without a blank before the value, bare values
SnippetParts ==
    { <<"a","r","c","h",":"," ","l","l","a","m","a">>, <<"a","r","c","h",":","l","l","a","m","a">>,
      <<"l","l","a","m","a">>, <<"7","b">>, <<"Q","4","_","0">>,
      <<"p","a","r","a","m","e","t","e","r","s",":","7","b">>,
      <<"q","u","a","n","t","i","z","a","t","i","o","n",":"," ","q","8","_","0">>,
      <<"g","e","m","m","a","2">>, <<"A","r","c","h",":","M","i","s","t","r","a","l">>,
      <<"q","w","e","n">> }

\* the snippets of a 'model' file row: parts joined by ' · ', or by a blank
Snippets(n) ==
    { JoinParts(parts, sep) : parts \in SeqsUpTo(SnippetParts, n),
                              sep \in { <<" ", MiddleDot, " ">>, <<",", " ">> } }

\* the count texts of a listing: blanks, digits with thousands separators, a fraction, a suffix
PullLeads == { <<>>, <<" ">> }
PullIntegers == { <<>>, <<"1">>, <<"8">>, <<"3","2">>, <<"1",",","2","3","4">>, <<"x">>, <<"6","4">> }
PullFractions == { <<>>, <<".">>, <<".","2">>, <<".","5">>, <<".","0","0","1">>, <<".","2",".","5">>, <<".","1">>, <<".","3","5">> }
PullSuffixes == { <<>>, <<"k">>, <<"m">>, <<"K">>, <<"M"," ">>, <<"k","m">>, <<"k","x">>, <<" ","m">> }
PullStrs ==
    { l \o i \o f \o x : l \in PullLeads, i \in PullIntegers, f \in PullFractions,
                         x \in PullSuffixes }

\* the size texts of a file row: a magnitude, a blank or none, a unit or none; the
\* magnitudes are grouped by the largest unit that keeps the size below 2^31
TinyMagnitudes == { <<>>, <<".">>, <<"1",".","5",".","2">>, <<"0",".","0","0","1">>, <<"0",".","0","0","1","9">>, <<"x">> }
SmallMagnitudes == { <<"1",".","5">>, <<"1",".","1">>, <<"0",".","5">>, <<"1",".","9">>, <<"1",".">> }
MiddleMagnitudes == { <<"5","1","2">>, <<"1","2",".","9">>, <<"1",",","0","2","4">> }
\* a magnitude beyond the largest double
HugeMagnitude == [i \in 1..(MaxDoubleDigits + 1) |-> "9"]
ByteUnits == { <<>>, <<"B">>, <<"K","B">>, <<"k","b">>, <<"K","i","B">>, <<"M","B">>, <<"M","i","B">>, <<"m","b">> }
GigaUnits == { <<"G","B">>, <<"g","i","b">>, <<"G","b">> }
TeraUnits == { <<"T","B">>, <<"T","i","B">>, <<"t","b">> }
SizeStrs ==
    { m \o b \o u : m \in TinyMagnitudes, b \in PullLeads, u \in ByteUnits \cup GigaUnits \cup TeraUnits }
    \cup { m \o b \o u : m \in SmallMagnitudes, b \in PullLeads, u \in ByteUnits \cup GigaUnits }
    \cup { m \o b \o u : m \in MiddleMagnitudes, b \in PullLeads, u \in ByteUnits }
    \cup { HugeMagnitude \o u : u \in {<< >>, <<" ","G","B">>} }

\* the base times: 2026-11-03 12:30:07 and 2024-02-29 00:10:00
BaseTimes == { [day |-> 739923, minute |-> 750, rest |-> 7],
               [day |-> 738945, minute |-> 10, rest |-> 0] }
DateValues == { <<"1">>, <<"2">>, <<"4","5">>, <<"3","0","0","0">> }
\* the texts of an update time: the keywords, '<N> <unit>(s) ago', and others
RelativeStrs ==
    { <<"j","u","s","t"," ","n","o","w">>,
      <<"M","o","m","e","n","t","s"," ","a","g","o">>,
      <<"Y","e","s","t","e","r","d","a","y">>,
      <<" ","y","e","s","t","e","r","d","a","y"," ">>,
      <<>>,
      <<"s","o","o","n">>,
      <<"2"," ","d","a","y","s">>,
      <<"u","p","d","a","t","e","d"," ","2"," ","d","a","y","s"," ","a","g","o">>,
      <<"2"," ","d","a","y","s"," ","a","g","o","x">>,
      <<"2"," "," ","d","a","y","s"," ","a","g","o">>,
      <<"t","w","o"," ","d","a","y","s"," ","a","g","o">>,
      <<"2","d","a","y","s"," ","a","g","o">>,
      <<"2"," ","d","a","y","s","s"," ","a","g","o">>,
      <<"3"," ","m","i","n","u","t","e","s"," ","a","g","o"," ","j","u","s","t"," ","n","o","w">>,
      <<"2"," ","D","A","Y","S"," ","A","g","o"," ">> }
    \cup { n \o <<" ">> \o u \o p \o <<" ">> \o S_ago_word :
             n \in DateValues, u \in DateUnits, p \in {<< >>, <<"s">>} }

----------------------------------------------------------------------------
(* state *)

VARIABLES
    pc,        \* "start", "fetch1", "fetch2", "blob_fetch" or "done"
    op,        \* the function or endpoint that is called
    args,      \* its arguments, as the caller wrote them
    norm_ns,   \* the handler's norm_ns
    page_url,  \* the handler's tag_page_url, tags_page_url or page_url
    fetched,   \* the calls of cached_session.get so far, each with its outcome
    response,  \* the document of the last successful page fetch
    found,     \* get_blob_information's found_file_summary
    result,    \* what the call returned: a record, an HTTP error or an exception
    now,       \* the clock while the call runs: what datetime.now(timezone.utc) returns
    ping_durations,    \* the module's deque of ping durations
    total_bytes_sent,  \* the module's total_bytes_sent
    pings_answered     \* how many /ping requests the process has answered

vars == << pc, op, args, norm_ns, page_url, fetched, response, found, result, now,
           ping_durations, total_bytes_sent, pings_answered >>

\* what only the /ping handler touches
ping_state == << ping_durations, total_bytes_sent, pings_answered >>

Parsers == {"parse_model_page_html", "parse_all_tags_page_html",
            "parse_list_or_search_page_html"}
Normalizers == {"parse_gguf_metadata_from_snippet", "parse_pull_count",
                "parse_size_str_to_bytes", "parse_relative_date_to_datetime"}
Lookups == {"get_model_details", "get_specific_tag_details", "list_all_tags",
            "get_blob_information"}
Listings == {"search_models", "list_models_by_namespace"}

Args(namespace, model_base_name, tag_part, blob_identifier, doc, url) ==
    [namespace |-> namespace, model_base_name |-> model_base_name, tag_part |-> tag_part,
     blob_identifier |-> blob_identifier, doc |-> doc, page_url |-> url]

NoUrl == Url(None)

\* the arguments of a listing endpoint: the query q or the namespace, the sort order o and
\* the capability filter c
ListingArgs(q, namespace, o, c) ==
    [q |-> q, namespace |-> namespace, o |-> o, c |-> c, doc |-> NoDoc, page_url |-> NoUrl]

\* sort orders a request can carry: the two the handlers accept and one they do not
SortOrders ==
    { <<"p","o","p","u","l","a","r">>, <<"n","e","w","e","s","t">>, <<"o","l","d","e","s","t">> }

\* capability filters a request can carry: none, an empty one, one capability, two
\* capabilities with a capital and a space, and one with a trailing comma
CapabilityFilters ==
    { None, << >>,
      <<"v","i","s","i","o","n">>,
      <<"V","i","s","i","o","n",","," ","t","o","o","l","s">>,
      <<"t","o","o","l","s",",">> }

\* rows of the page a listing endpoint receives: three that resolve, with different
\* capabilities, and one without a title element
CapabilityRows ==
    { ListingRow(<<"/","l","i","b","r","a","r","y","/","m">>, T_M, TRUE, None,
                 << <<"V","i","s","i","o","n">> >>),
      ListingRow(<<"/","b","o","b","/","m">>, <<"B","o","b","/","M">>, TRUE, None,
                 << <<"T","o","o","l","s">>, <<"v","i","s","i","o","n">> >>),
      ListingRow(<<"/","l","i","b","r","a","r","y","/","t">>, T_T, TRUE, None, << >>),
      ListingRow(<<"/","B","o","b","/","M">>, None, FALSE, None, << >>) }

ListingResponseDocs(n) ==
    { [kind |-> "listing", items |-> items] : items \in SeqsUpTo(CapabilityRows, n) }

\* the times at which a call is made, all after the module was loaded: a page parser is
\* called at either time, a normalizer, which reads no clock, and an endpoint at the second
CallTimes ==
    { [day |-> 739924, minute |-> 5, rest |-> 0],
      [day |-> 740000, minute |-> 1200, rest |-> 30000000] }
RequestTime == [day |-> 740000, minute |-> 1200, rest |-> 30000000]
TimesOf(o) == IF o \in Parsers THEN CallTimes ELSE { RequestTime }

\* everything the model calls
Operations == Parsers \cup Normalizers \cup Lookups \cup Listings \cup {"ping"}

\* the arguments the model calls an operation with: each parser on every document, each endpoint
\* on every request
Calls(name) ==
    CASE name = "parse_model_page_html" ->
          { Args(None, None, None, None, d, u) :
              d \in PageDocs(MaxRows), u \in PageUrls }
      [] name = "parse_all_tags_page_html" ->
          { Args(ns, T_m, None, None, d, Url(Slash \o ns \o <<"/","m","/","t","a","g","s">>)) :
              ns \in {S_library, T_bob}, d \in TagsDocs(MaxRows) }
      [] name = "parse_list_or_search_page_html" ->
          { Args(None, None, None, None, d, NoUrl) :
              d \in ListingDocs(MaxRows) }
      [] name = "parse_gguf_metadata_from_snippet" ->
          { Args(None, None, None, None, TextInput(snippet, NoTime), NoUrl) :
              snippet \in Snippets(MaxSnippetParts) }
      [] name = "parse_pull_count" ->
          { Args(None, None, None, None, TextInput(t, NoTime), NoUrl) :
              t \in PullStrs }
      [] name = "parse_size_str_to_bytes" ->
          { Args(None, None, None, None, TextInput(t, NoTime), NoUrl) :
              t \in SizeStrs }
      [] name = "parse_relative_date_to_datetime" ->
          { Args(None, None, None, None, TextInput(t, b), NoUrl) :
              t \in RelativeStrs, b \in BaseTimes }
      [] name = "get_model_details" ->
          { Args(ns, mbn, None, None, NoDoc, NoUrl) :
              ns \in Namespaces, mbn \in BaseNames }
      [] name = "get_specific_tag_details" ->
          { Args(ns, mbn, tp, None, NoDoc, NoUrl) :
              ns \in Namespaces, mbn \in BaseNames, tp \in TagParts }
      [] name = "list_all_tags" ->
          { Args(ns, mbn, None, None, NoDoc, NoUrl) :
              ns \in Namespaces, mbn \in BaseNames }
      [] name = "get_blob_information" ->
          { Args(ns, mbn, tp, bi, NoDoc, NoUrl) :
              ns \in Namespaces, mbn \in BaseNames, tp \in TagParts, bi \in BlobIdentifiers }
      [] name = "ping" ->
          { Args(None, None, None, None, NoDoc, NoUrl) }
      [] name = "search_models" ->
          { ListingArgs(T_m, None, o, c) :
              o \in SortOrders, c \in CapabilityFilters }
      [] name = "list_models_by_namespace" ->
          { ListingArgs(None, ns, o, c) :
              ns \in {S_library, T_Bob}, o \in SortOrders, c \in CapabilityFilters }

Pending == [status |-> "pending"]
NoFile == [name |-> None]

Init ==
    /\ op \in Operations
    /\ args \in Calls(op)
    /\ pc = "start"
    /\ norm_ns = None
    /\ page_url = NoUrl
    /\ fetched = << >>
    /\ response = NoDoc
    /\ found = NoFile
    /\ result = Pending
    /\ now \in TimesOf(op)
    /\ ping_durations = << >>
    /\ total_bytes_sent = 0
    /\ pings_answered = 0

\* a function returned r, or an exception left it
Returned(r) == IF Raised(r) THEN [status |-> "raised", exc |-> r.exc]
               ELSE [status |-> "returned", body |-> r]

CallParseModelPage ==
    /\ pc = "start" /\ op = "parse_model_page_html"
    /\ result' = Returned(parse_model_page_html(args.doc, args.page_url, now))
    /\ pc' = "done"
    /\ UNCHANGED << ping_state, now, op, args, norm_ns, page_url, fetched, response, found >>

CallParseAllTags ==
    /\ pc = "start" /\ op = "parse_all_tags_page_html"
    /\ result' = Returned(parse_all_tags_page_html(args.doc, args.page_url,
                                                   args.namespace, args.model_base_name))
    /\ pc' = "done"
    /\ UNCHANGED << ping_state, now, op, args, norm_ns, page_url, fetched, response, found >>

CallParseListing ==
    /\ pc = "start" /\ op = "parse_list_or_search_page_html"
    /\ result' = Returned(parse_list_or_search_page_html(args.doc, now))
    /\ pc' = "done"
    /\ UNCHANGED << ping_state, now, op, args, norm_ns, page_url, fetched, response, found >>

CallParseGguf ==
    /\ pc = "start" /\ op = "parse_gguf_metadata_from_snippet"
    /\ result' = Returned(parse_gguf_metadata_from_snippet(args.doc.text))
    /\ pc' = "done"
    /\ UNCHANGED << ping_state, now, op, args, norm_ns, page_url, fetched, response, found >>

CallParsePullCount ==
    /\ pc = "start" /\ op = "parse_pull_count"
    /\ result' = Returned(parse_pull_count(args.doc.text))
    /\ pc' = "done"
    /\ UNCHANGED << ping_state, now, op, args, norm_ns, page_url, fetched, response, found >>

CallParseSize ==
    /\ pc = "start" /\ op = "parse_size_str_to_bytes"
    /\ result' = Returned(parse_size_str_to_bytes(args.doc.text))
    /\ pc' = "done"
    /\ UNCHANGED << ping_state, now, op, args, norm_ns, page_url, fetched, response, found >>

CallParseRelativeDate ==
    /\ pc = "start" /\ op = "parse_relative_date_to_datetime"
    /\ result' = Returned(parse_relative_date_to_datetime(args.doc.text, args.doc.base_time))
    /\ pc' = "done"
    /\ UNCHANGED << ping_state, now, op, args, norm_ns, page_url, fetched, response, found >>

----------------------------------------------------------------------------
(* the lookup endpoints *)

\* the longest list of rows (dropdown rows, file rows) in a page an endpoint fetches
MaxResponseRows == 1

\* what cached_session.get can do: a response with a status, or a RequestException
Outcomes == {"200", "404", "500", "exception"}

S_tags_path == Slash \o S_tags
text_blob_names == { T_params, <<"t","e","m","p","l","a","t","e">>, <<"l","i","c","e","n","s","e">>, <<"m","o","d","e","l","f","i","l","e">> }

\* the path of the entity page of a lookup under namespace ns (lines 783, 870, 905, 933)
EntityPath(o, ns, a) ==
    IF o = "get_model_details" THEN Slash \o ns \o Slash \o Lower(a.model_base_name)
    ELSE IF o = "list_all_tags"
    THEN Slash \o ns \o Slash \o Lower(a.model_base_name) \o S_tags_path
    ELSE Slash \o ns \o Slash \o Lower(a.model_base_name) \o Colon \o Lower(a.tag_part)

\* a first URL that keeps the letter case of the requested namespace
FirstUrl_CaseKept(o, a) == Url(EntityPath(o, a.namespace, a))

\* the URL of the first fetch
FirstUrl(o, a) == Url(EntityPath(o, Lower(a.namespace), a))

\* a retry that asks for the requested namespace again
LibraryUrl_Requested(o, a) == FirstUrl(o, a)

\* the URL of the fallback fetch (lines 788, 876, 910, 939)
LibraryUrl(o, a) == Url(EntityPath(o, S_library, a))

\* the pages the site may answer a lookup with
ResponseDocs(o) ==
    IF o = "list_all_tags" THEN TagsDocs(MaxRows)
    ELSE IF o = "get_blob_information" THEN FileDocs(MaxResponseRows)
    ELSE ActiveTagDocs(MaxResponseRows)

HttpError(status) == [status |-> status]

\* lines 888-895: the tag endpoint writes the requested tag over the parsed record
TagDetails(parsed_data, ns, a) ==
    LET norm_tp == Lower(a.tag_part)
        entries == parsed_data.all_tags_dropdown_summary
    IN  [parsed_data EXCEPT
           !.active_tag_part = norm_tp,
           !.active_tag_full_name = make_full_tag_name(ns, Lower(a.model_base_name), norm_tp),
           !.all_tags_dropdown_summary =
               [i \in DOMAIN entries |->
                  [entries[i] EXCEPT !.is_active = (entries[i].tag_part = norm_tp)]]]

\* lines 802-806: the first file entry that the blob identifier names
\* line 804
\* a match by name only
FileMatches_NameOnly(fs, norm_bi) == Lower(fs.name) = norm_bi

FileMatches(fs, norm_bi) ==
    \/ Lower(fs.name) = norm_bi
    \/ (Truthy(fs.digest) /\ StartsWith(Lower(fs.digest), norm_bi))

RECURSIVE FirstMatch(_, _)
FirstMatch(files, norm_bi) ==
    IF files = << >> THEN NoFile
    ELSE IF FileMatches(Head(files), norm_bi) THEN Head(files)
    ELSE FirstMatch(Tail(files), norm_bi)

FindFile(files, a) == FirstMatch(files, Lower(a.blob_identifier))

\* line 216: the default base_time is the time at which the module was loaded

\* lines 842-844: None for an empty caption
ListingUpdatedIso(updated_str) ==
    IF Truthy(updated_str)
    THEN parse_relative_date_to_datetime(updated_str, ImportTime)
    ELSE [exc |-> "none", dt |-> None]

\* lines 835-838 and 846-859; parsed_gguf_metadata is absent (present FALSE) for an empty
\* snippet, with or without the call of line 838
BlobDetails(fs, ns, a, text_content, parsed_json_content, gguf_metadata_snippet, cache_from) ==
    [name_full_tag |-> make_full_tag_name(ns, Lower(a.model_base_name), Lower(a.tag_part)),
     canonical_name |-> fs.name,
     source_url |-> fs.blob_url,
     digest |-> IF Truthy(fs.digest) THEN fs.digest ELSE S_unknown_digest,
     size_str |-> fs.size_str,
     text_content |-> text_content,
     parsed_json_content |-> parsed_json_content,
     gguf_metadata_snippet |-> gguf_metadata_snippet,
     parsed_gguf_metadata |-> parse_gguf_metadata_from_snippet(gguf_metadata_snippet),
     listing_updated_str |-> fs.updated_str,
     listing_updated_iso |-> ListingUpdatedIso(fs.updated_str),
     cache_info |-> cache_from]

\* the response of the blob endpoint, or the exception of the date normalizer
BlobResponse(details) ==
    IF Raised(details.listing_updated_iso)
    THEN [status |-> "raised", exc |-> details.listing_updated_iso.exc]
    ELSE [status |-> "200", body |-> details]

Done(result_record) == [pc |-> "done", found |-> NoFile, result |-> result_record]

\* a handler that fetches the content of every blob but the unnamed ones
CompleteBlob_FetchesModel(a, ns, fs) ==
    IF fs = NoFile THEN Done(HttpError("404"))
    ELSE IF fs.name \in text_blob_names \cup {T_model}
    THEN [pc |-> "blob_fetch", found |-> fs, result |-> Pending]
    ELSE [pc |-> "done", found |-> fs,
          result |-> BlobResponse(BlobDetails(fs, ns, a, fs.snippet, None, None, "tag_page"))]

\* lines 808-840, given found_file_summary
CompleteBlob(a, ns, fs) ==
    IF fs = NoFile THEN Done(HttpError("404"))
    ELSE IF fs.name \in text_blob_names
    THEN [pc |-> "blob_fetch", found |-> fs, result |-> Pending]
    ELSE IF fs.name = T_model
    THEN [pc |-> "done", found |-> fs,
          result |-> BlobResponse(BlobDetails(fs, ns, a, None, None, fs.snippet, "tag_page"))]
    ELSE [pc |-> "done", found |-> fs,
          result |-> BlobResponse(BlobDetails(fs, ns, a, fs.snippet, None, None, "tag_page"))]

\* what a handler does with the record parsed from its page
CompleteParsed(o, a, ns, parsed) ==
    IF Raised(parsed) THEN Done([status |-> "raised", exc |-> parsed.exc])
    ELSE IF o = "get_model_details" THEN Done([status |-> "200", body |-> parsed])
    ELSE IF o = "get_specific_tag_details"
    THEN Done([status |-> "200", body |-> TagDetails(parsed, ns, a)])
    ELSE CompleteBlob(a, ns, FindFile(parsed.tag_files_summary, a))

\* what a handler does with the page d it fetched from url under namespace ns:
\* the result, the next pc and found_file_summary
Complete(o, a, ns, url, d) ==
    IF o = "list_all_tags"
    THEN Done([status |-> "200",
               body |-> parse_all_tags_page_html(d, url, ns, Lower(a.model_base_name))])
    ELSE CompleteParsed(o, a, ns, parse_model_page_html(d, url, now))

\* a handler starts: it lower-cases the request and builds the URL of the entity page
Begin ==
    /\ pc = "start" /\ op \in Lookups
    /\ norm_ns' = Lower(args.namespace)
    /\ page_url' = FirstUrl(op, args)
    /\ pc' = "fetch1"
    /\ UNCHANGED << ping_state, now, op, args, fetched, response, found, result >>

\* the handler goes on as Complete says
Answer(c) == pc' = c.pc /\ found' = c.found /\ result' = c.result

\* no body: a page is kept in response, a failed fetch has none
NoContent == [html |-> FALSE, pre |-> None, text |-> None]

Fetched(url, outcome, kind) ==
    [url |-> url, outcome |-> outcome, kind |-> kind, content |-> NoContent]

\* the first cached_session.get returns 404
Fetch1NotFound ==
    /\ pc = "fetch1"
    /\ fetched' = Append(fetched, Fetched(page_url, "404", "page"))
    /\ IF norm_ns # S_library
       THEN /\ pc' = "fetch2"
            /\ page_url' = LibraryUrl(op, args)
            /\ UNCHANGED result
       ELSE /\ pc' = "done"
            /\ result' = HttpError("404")
            /\ UNCHANGED page_url
    /\ UNCHANGED << ping_state, now, op, args, norm_ns, response, found >>

\* a handler that answers a failed first fetch with the fallback fetch
FetchFails_Retried ==
    /\ pc \in {"fetch1", "fetch2"}
    /\ \E outcome \in {"500", "exception"} :
          fetched' = Append(fetched, Fetched(page_url, outcome, "page"))
    /\ IF pc = "fetch1" /\ norm_ns # S_library
       THEN /\ pc' = "fetch2"
            /\ page_url' = Url(EntityPath(op, S_library, args))
            /\ UNCHANGED result
       ELSE /\ pc' = "done"
            /\ result' = HttpError("503")
            /\ UNCHANGED page_url
    /\ UNCHANGED << ping_state, now, op, args, norm_ns, response, found >>

\* a cached_session.get of the entity page raises, or returns an error status
\* that raise_for_status turns into a RequestException
FetchFails ==
    /\ pc \in {"fetch1", "fetch2"}
    /\ \E outcome \in {"500", "exception"} :
          fetched' = Append(fetched, Fetched(page_url, outcome, "page"))
    /\ norm_ns' = IF pc = "fetch2" /\ op # "get_model_details"
                     /\ fetched'[Len(fetched')].outcome = "500"
                  THEN S_library ELSE norm_ns
    /\ pc' = "done"
    /\ result' = HttpError("503")
    /\ UNCHANGED << ping_state, now, op, args, page_url, response, found >>

\* the first cached_session.get succeeds: the handler parses and answers
Fetch1Ok ==
    /\ pc = "fetch1"
    /\ \E d \in ResponseDocs(op) :
          /\ response' = d
          /\ Answer(Complete(op, args, norm_ns, page_url, d))
    /\ fetched' = Append(fetched, Fetched(page_url, "200", "page"))
    /\ UNCHANGED << ping_state, now, op, args, norm_ns, page_url >>

\* the fallback cached_session.get returns 404
Fetch2NotFound ==
    /\ pc = "fetch2"
    /\ fetched' = Append(fetched, Fetched(page_url, "404", "page"))
    /\ pc' = "done"
    /\ result' = HttpError("404")
    /\ UNCHANGED << ping_state, now, op, args, norm_ns, page_url, response, found >>

\* the fallback cached_session.get succeeds: the handler goes on under 'library'
Fetch2Ok ==
    /\ pc = "fetch2"
    /\ norm_ns' = IF op = "get_model_details" THEN norm_ns ELSE S_library
    /\ \E d \in ResponseDocs(op) :
          /\ response' = d
          /\ Answer(Complete(op, args, S_library, page_url, d))
    /\ fetched' = Append(fetched, Fetched(page_url, "200", "page"))
    /\ UNCHANGED << ping_state, now, op, args, page_url >>

\* the body of a blob content response
BlobContent(html, pre, text) == [html |-> html, pre |-> pre, text |-> text]
BlobContents ==
    { BlobContent(TRUE, <<"{","}">>, << >>), BlobContent(TRUE, None, << >>),
      BlobContent(FALSE, None, <<"{","}">>), BlobContent(FALSE, None, T_txt),
      BlobContent(FALSE, None, << >>) }

\* parse_blob_content_page_html: the text of the first <pre>, or None
parse_blob_content_page_html(content) == content.pre

\* json.loads(t) returns, for the texts of the model
JsonDecodes(t) == t = <<"{","}">>

\* lines 825-828: the text of the <pre> of an HTML page, or the body as it is
BlobText(content) ==
    IF content.html THEN parse_blob_content_page_html(content) ELSE content.text

\* a handler that gives up the text when it could not be decoded
TextBlobDetails_DropsText(fs, ns, a, text_content) ==
    IF Truthy(text_content) /\ fs.name = T_params /\ JsonDecodes(text_content)
    THEN BlobDetails(fs, ns, a, text_content, text_content, None, "blob_content")
    ELSE BlobDetails(fs, ns, a, IF fs.name = T_params THEN None ELSE text_content,
                     None, None, "blob_content")

\* lines 829-831 and 846-859
TextBlobDetails(fs, ns, a, text_content) ==
    BlobDetails(fs, ns, a, text_content,
                IF Truthy(text_content) /\ fs.name = T_params /\ JsonDecodes(text_content)
                THEN text_content ELSE None,
                None, "blob_content")

\* lines 819-831: the content fetch of a text blob succeeds
BlobFetchOk ==
    /\ pc = "blob_fetch"
    /\ \E content \in BlobContents :
          /\ result' = BlobResponse(TextBlobDetails(found, norm_ns, args, BlobText(content)))
          /\ fetched' = Append(fetched, [Fetched(found.blob_url, "200", "blob")
                                         EXCEPT !.content = content])
    /\ pc' = "done"
    /\ UNCHANGED << ping_state, now, op, args, norm_ns, page_url, response, found >>

\* a handler that answers a failed content fetch as it answers a failed page fetch
BlobFetchFails_Is503 ==
    /\ pc = "blob_fetch"
    /\ \E outcome \in {"404", "500", "exception"} :
          fetched' = Append(fetched, Fetched(found.blob_url, outcome, "blob"))
    /\ result' = HttpError("503")
    /\ pc' = "done"
    /\ UNCHANGED << ping_state, now, op, args, norm_ns, page_url, response, found >>

\* lines 832-834: the content fetch raises or returns an error status
BlobFetchFails ==
    /\ pc = "blob_fetch"
    /\ \E outcome \in {"404", "500", "exception"} :
          fetched' = Append(fetched, Fetched(found.blob_url, outcome, "blob"))
    /\ result' = BlobResponse(BlobDetails(found, norm_ns, args, found.snippet, None, None,
                                          "tag_page"))
    /\ pc' = "done"
    /\ UNCHANGED << ping_state, now, op, args, norm_ns, page_url, response, found >>

(* search_models and list_models_by_namespace *)

\* lines 735 and 961: the sort orders the two handlers accept
AcceptedSortOrders == { <<"p","o","p","u","l","a","r">>, <<"n","e","w","e","s","t">> }

\* lines 738-741 and 965-973: the page the handler fetches
ListingUrl(o_name, a) ==
    IF o_name = "search_models" THEN Url(<<"/","s","e","a","r","c","h">>)
    ELSE IF Lower(a.namespace) = S_library THEN Url(<<"/","l","i","b","r","a","r","y">>)
    ELSE Url(Slash \o Lower(a.namespace))

\* lines 754 and 992: set(cap.strip().lower() for cap in c.split(','))
RequestedCaps(c) ==
    { Lower(Strip(Split(c, ",")[i])) : i \in DOMAIN Split(c, ",") }

\* a filter that keeps a row as soon as it has one of the requested capabilities
HasRequestedCaps_Any(model_data, requested_caps) ==
    \E k \in DOMAIN model_data.capabilities : model_data.capabilities[k] \in requested_caps

\* lines 757-758 and 995-996: requested_caps.issubset(model_caps_set)
HasRequestedCaps(model_data, requested_caps) ==
    requested_caps \subseteq { model_data.capabilities[i] : i \in DOMAIN model_data.capabilities }

\* lines 751-761 and 989-999: final_results
FinalResults(parsed_results_data, c) ==
    IF Truthy(c)
    THEN SelectSeq(parsed_results_data, LAMBDA m : HasRequestedCaps(m, RequestedCaps(c)))
    ELSE parsed_results_data

\* lines 749-768 and 987-1009: the response built from the parsed page; filters is the set
\* of capabilities of FilterInfo, empty where the handler passes None
ListingResponse(o_name, a, parsed) ==
    IF Raised(parsed) THEN [status |-> "raised", exc |-> parsed.exc]
    ELSE [status |-> "200",
          body |-> [query |-> IF o_name = "search_models" THEN a.q ELSE None,
                    queried_namespace |-> IF o_name = "search_models" THEN None
                                          ELSE Lower(a.namespace),
                    sort_order |-> a.o,
                    filters |-> IF Truthy(a.c) THEN RequestedCaps(a.c) ELSE { },
                    results |-> FinalResults(parsed.items, a.c)]]

\* lines 735-736 and 961-962: an unknown sort order is answered before anything is fetched
RejectSortOrder ==
    /\ pc = "start" /\ op \in Listings
    /\ args.o \notin AcceptedSortOrders
    /\ result' = HttpError("400")
    /\ pc' = "done"
    /\ UNCHANGED << ping_state, now, op, args, norm_ns, page_url, fetched, response, found >>

\* lines 738-768 and 964-1009 when the fetch answers 200
ListingFetchOk ==
    /\ pc = "start" /\ op \in Listings
    /\ args.o \in AcceptedSortOrders
    /\ \E d \in ListingResponseDocs(MaxRows) :
          /\ response' = d
          /\ result' = ListingResponse(op, args, parse_list_or_search_page_html(d, now))
    /\ page_url' = ListingUrl(op, args)
    /\ fetched' = Append(fetched, Fetched(page_url', "200", "listing"))
    /\ pc' = "done"
    /\ UNCHANGED << ping_state, now, op, args, norm_ns, found >>

\* lines 743-745, where raise_for_status turns the 404 into a RequestException, and
\* lines 980-982, where the 404 is answered as 404
ListingFetchNotFound ==
    /\ pc = "start" /\ op \in Listings
    /\ args.o \in AcceptedSortOrders
    /\ page_url' = ListingUrl(op, args)
    /\ fetched' = Append(fetched, Fetched(page_url', "404", "listing"))
    /\ result' = IF op = "search_models" THEN HttpError("503") ELSE HttpError("404")
    /\ pc' = "done"
    /\ UNCHANGED << ping_state, now, op, args, norm_ns, response, found >>

\* lines 742-745 and 978-984: any other failure of the fetch
ListingFetchFails ==
    /\ pc = "start" /\ op \in Listings
    /\ args.o \in AcceptedSortOrders
    /\ page_url' = ListingUrl(op, args)
    /\ \E outcome \in {"500", "exception"} :
          fetched' = Append(fetched, Fetched(page_url', outcome, "listing"))
    /\ result' = HttpError("503")
    /\ pc' = "done"
    /\ UNCHANGED << ping_state, now, op, args, norm_ns, response, found >>

(* ping *)

\* the longest sequence of /ping requests
MaxPings == 130

\* line 713: total_bytes_sent / 1024
BytesPerKb == 1024

\* lines 702-703: the body JSONResponse renders for {"message": "pong"}, with the
\* separators ',' and ':' and no spaces
PongBody ==
    <<"{","\"","m","e","s","s","a","g","e","\"",":","\"","p","o","n","g","\"","}">>

\* round(n / d, 2) in hundredths: the nearest hundredth of the quotient, the even one
\* of two that are equally near (the quotient by 1024 is exact in a double)
RoundHundredths(n, d) ==
    IF 2 * ((n * 100) % d) > d
         \/ (2 * ((n * 100) % d) = d /\ ((n * 100) \div d) % 2 = 1)
    THEN (n * 100) \div d + 1
    ELSE (n * 100) \div d

\* lines 710-715: metrics; total_bandwidth_sent_kb is in hundredths of a kilobyte
Metrics(durations, bytes_sent, response_size) ==
    [status |-> "pong",
     total_pings |-> Len(durations),
     total_bandwidth_sent_kb |-> RoundHundredths(bytes_sent, BytesPerKb),
     last_response_size_bytes |-> response_size]

\* lines 697-717: the handler adds the size of the pong body to total_bytes_sent and
\* answers with the metrics; it appends nothing to ping_durations
Ping ==
    /\ op = "ping" /\ pc \in {"start", "done"}
    /\ pings_answered < MaxPings
    /\ total_bytes_sent' = total_bytes_sent + Len(PongBody)
    /\ result' = [status |-> "200",
                  body |-> Metrics(ping_durations, total_bytes_sent', Len(PongBody))]
    /\ pings_answered' = pings_answered + 1
    /\ pc' = "done"
    /\ UNCHANGED << ping_durations, now, op, args, norm_ns, page_url, fetched, response, found >>

Next ==
    \/ CallParseModelPage
    \/ CallParseAllTags
    \/ CallParseListing
    \/ CallParseGguf
    \/ CallParsePullCount
    \/ CallParseSize
    \/ CallParseRelativeDate
    \/ Begin
    \/ Fetch1NotFound
    \/ Fetch1Ok
    \/ Fetch2NotFound
    \/ Fetch2Ok
    \/ FetchFails
    \/ BlobFetchOk
    \/ BlobFetchFails
    \/ RejectSortOrder
    \/ ListingFetchOk
    \/ ListingFetchNotFound
    \/ ListingFetchFails
    \/ Ping

Spec == Init /\ [][Next]_vars

----------------------------------------------------------------------------
(* properties *)

Finished(o) == pc = "done" /\ op = o
ParserReturned(o) == Finished(o) /\ result.status = "returned"

\* the entity-page fetches of a lookup, in order
PageFetches == SelectSeq(fetched, LAMBDA f : f.kind = "page")

\* the canonical names as the specification words them
CanonicalModelName(namespace, base) ==
    IF namespace = S_library THEN base ELSE namespace \o <<"/">> \o base
CanonicalTagName(namespace, base, tag) ==
    CanonicalModelName(namespace, base) \o <<":">> \o tag

\* C1: after parse_model_page_html returns, every dropdown entry is active exactly
\* when its tag part equals the active tag part of the record.
C1_ActiveFlagMatchesActiveTag ==
    ParserReturned("parse_model_page_html") =>
        \A i \in DOMAIN result.body.all_tags_dropdown_summary :
            LET e == result.body.all_tags_dropdown_summary[i]
            IN  e.is_active = (e.tag_part = result.body.active_tag_part)

\* the request with every token lower-cased
LowerArgs(a) ==
    [a EXCEPT !.namespace = Lower(@), !.model_base_name = Lower(@),
              !.tag_part = IF @ = None THEN None ELSE Lower(@),
              !.blob_identifier = IF @ = None THEN None ELSE Lower(@)]

\* the path of the entity page under namespace ns, as the endpoints' routes word it
ExpectedPath(ns) ==
    <<"/">> \o ns \o <<"/">> \o Lower(args.model_base_name)
    \o (IF op = "get_model_details" THEN << >>
        ELSE IF op = "list_all_tags" THEN <<"/","t","a","g","s">>
        ELSE <<":">> \o Lower(args.tag_part))

\* the lookup found its page under 'library' after a 404 under another namespace
FellBack ==
    /\ pc = "done" /\ op \in Lookups /\ result.status = "200"
    /\ Len(PageFetches) = 2
    /\ PageFetches[1].outcome = "404" /\ PageFetches[2].outcome = "200"

\* every namespace and full name of the returned record is under 'library'
UsesLibrary(body) ==
    IF op = "get_blob_information"
    THEN body.name_full_tag
            = CanonicalTagName(S_library, Lower(args.model_base_name), Lower(args.tag_part))
    ELSE /\ body.namespace = S_library
         /\ body.name_full_model = CanonicalModelName(S_library, body.model_base_name)
         /\ IF op = "list_all_tags"
            THEN \A i \in DOMAIN body.tags :
                    body.tags[i].name_full_tag
                       = CanonicalTagName(S_library, body.model_base_name,
                                          body.tags[i].tag_part)
            ELSE /\ body.active_tag_full_name # None =>
                       body.active_tag_full_name
                          = CanonicalTagName(S_library, body.model_base_name,
                                             body.active_tag_part)
                 /\ \A i \in DOMAIN body.all_tags_dropdown_summary :
                       body.all_tags_dropdown_summary[i].name_full_tag
                          = CanonicalTagName(S_library, body.model_base_name,
                                             body.all_tags_dropdown_summary[i].tag_part)

\* C2, as claimed: after a successful fallback the namespace and every full name of
\* the returned record use 'library', in all four lookups and for every page.
C2_FallbackRecordUsesLibrary == FellBack => UsesLibrary(result.body)

\* the title attribute of the fetched page is itself a qualified 'namespace/base' name
TitleIsQualified == response.kind = "page" /\ response.title # None /\ HasChar(response.title, "/")

\* where the fallback does substitute 'library': in the all-tags and blob lookups always,
\* and in the model-detail and tag-detail lookups whenever the title attribute of the
\* fetched page is not a qualified 'namespace/base' name
FallbackUsesLibraryUnlessTitleQualified ==
    (FellBack /\ ~TitleIsQualified) => UsesLibrary(result.body)

\* C3: the entity page is fetched at most twice; the first fetch is under the requested
\* namespace; a second fetch follows only a 404 of the first and only when the requested
\* namespace is not 'library', and it targets the same entity under 'library'; two 404s, or
\* one 404 under 'library', end the lookup as 404.
C3_SingleFallbackHop ==
    op \in Lookups =>
        /\ Len(PageFetches) <= 2
        /\ Len(PageFetches) >= 1 =>
              PageFetches[1].url = Url(ExpectedPath(Lower(args.namespace)))
        /\ Len(PageFetches) = 2 =>
              /\ PageFetches[1].outcome = "404"
              /\ Lower(args.namespace) # S_library
              /\ PageFetches[2].url = Url(ExpectedPath(S_library))
              /\ PageFetches[2].outcome = "404" => (pc = "done" /\ result.status = "404")
        /\ (Len(PageFetches) = 1 /\ PageFetches[1].outcome = "404") =>
              IF Lower(args.namespace) = S_library
              THEN pc = "done" /\ result.status = "404"
              ELSE pc = "fetch2" /\ page_url = Url(ExpectedPath(S_library))

C3_Witness ==
    /\ op = "get_blob_information" /\ pc = "done"
    /\ Len(PageFetches) = 2 /\ PageFetches[2].outcome = "404"
    /\ result.status = "404"

\* C4: an entity-page fetch that raises or returns a non-404 error status is the last
\* fetch of the lookup, which ends as 503; a fallback fetch only ever follows a 404.
C4_TransportFailureIs503 ==
    op \in Lookups =>
        /\ \A i \in DOMAIN PageFetches :
              PageFetches[i].outcome \in {"500", "exception"} =>
                 /\ i = Len(fetched)
                 /\ pc = "done"
                 /\ result.status = "503"
        /\ \A i \in DOMAIN PageFetches : i > 1 => PageFetches[i - 1].outcome = "404"

C4_Witness ==
    /\ op = "list_all_tags" /\ pc = "done"
    /\ Len(PageFetches) = 2 /\ PageFetches[2].outcome = "500"
    /\ result.status = "503"

\* C5: the listing, model-detail and all-tags parsers never raise, whichever elements
\* and attributes of the document are present or absent.
C5_ParsersNeverRaise ==
    (pc = "done" /\ op \in Parsers) => result.status = "returned"

PageNamesCanonical(body) ==
    /\ body.name_full_model = CanonicalModelName(body.namespace, body.model_base_name)
    /\ body.active_tag_full_name # None =>
          body.active_tag_full_name
             = CanonicalTagName(body.namespace, body.model_base_name, body.active_tag_part)
    /\ \A i \in DOMAIN body.all_tags_dropdown_summary :
          body.all_tags_dropdown_summary[i].name_full_tag
             = CanonicalTagName(body.namespace, body.model_base_name,
                                body.all_tags_dropdown_summary[i].tag_part)

\* the names of a record of the all-tags parser are canonical
TagsNamesCanonical(body) ==
    /\ body.name_full_model = CanonicalModelName(body.namespace, body.model_base_name)
    /\ \A i \in DOMAIN body.tags :
          body.tags[i].name_full_tag
             = CanonicalTagName(body.namespace, body.model_base_name, body.tags[i].tag_part)

\* the names of the items of the listing parser are canonical
ListingNamesCanonical(body) ==
    \A i \in DOMAIN body.items :
        body.items[i].name_full_model
           = CanonicalModelName(body.items[i].namespace, body.items[i].model_base_name)

\* C7: every name_full_model and name_full_tag of a record of the listing, model-detail
\* and all-tags parsers is the canonical name of the record's own namespace, base name
\* and tag part: the base name alone under 'library', namespace/base otherwise, and
\* the model name, ':' and the tag part for a tag.
C7_NamesAreCanonical ==
    /\ ParserReturned("parse_model_page_html") => PageNamesCanonical(result.body)
    /\ ParserReturned("parse_all_tags_page_html") => TagsNamesCanonical(result.body)
    /\ ParserReturned("parse_list_or_search_page_html") => ListingNamesCanonical(result.body)

C7_Witness ==
    /\ ParserReturned("parse_model_page_html")
    /\ result.body.namespace = T_bob
    /\ result.body.name_full_model = <<"b","o","b","/","m">>
    /\ result.body.active_tag_full_name = <<"b","o","b","/","m",":","t">>
    /\ result.body.all_tags_dropdown_summary # << >>

\* the namespace a lookup goes on with once its page is found
NamespaceFound == IF Len(PageFetches) = 2 THEN S_library ELSE Lower(LowerArgs(args).namespace)

\* what the same request in lower case gives for the page the lookup found
LowerCaseAnswer ==
    Complete(op, LowerArgs(args), NamespaceFound, PageFetches[Len(PageFetches)].url, response)

\* C8: a lookup fetches the URLs and returns the record of the same request written in
\* lower case: the entity URLs, the record built from the page, the file found for the
\* blob identifier and the full tag name of a blob are those of the lower-cased request,
\* and lower-casing a lower-case request changes nothing.
C8_CaseInsensitiveIdentity ==
    op \in Lookups =>
        /\ LowerArgs(LowerArgs(args)) = LowerArgs(args)
        /\ Len(PageFetches) >= 1 => PageFetches[1].url = FirstUrl(op, LowerArgs(args))
        /\ Len(PageFetches) = 2 => PageFetches[2].url = LibraryUrl(op, LowerArgs(args))
        /\ (Len(fetched) >= 1 /\ fetched[Len(fetched)] = Fetched(page_url, "200", "page")) =>
              [pc |-> pc, found |-> found, result |-> result] = LowerCaseAnswer
        /\ (pc = "done" /\ op = "get_blob_information" /\ result.status = "200") =>
              result.body.name_full_tag
                 = make_full_tag_name(NamespaceFound, LowerArgs(args).model_base_name,
                                      LowerArgs(args).tag_part)

C8_Witness ==
    /\ op = "get_blob_information" /\ pc = "done" /\ result.status = "200"
    /\ args.namespace = T_Bob /\ args.model_base_name = T_M /\ args.tag_part = T_T
    /\ args.blob_identifier = T_Params
    /\ Len(PageFetches) = 1 /\ Len(fetched) = 2
    /\ result.body.name_full_tag = <<"b","o","b","/","m",":","t">>

\* the stored tokens of a record of the model-detail parser are lower-case
PageTokensLower(body) ==
    /\ body.namespace = Lower(body.namespace)
    /\ body.model_base_name = Lower(body.model_base_name)
    /\ body.active_tag_part # None => body.active_tag_part = Lower(body.active_tag_part)
    /\ \A i \in DOMAIN body.all_tags_dropdown_summary :
          body.all_tags_dropdown_summary[i].tag_part
             = Lower(body.all_tags_dropdown_summary[i].tag_part)

\* the stored tokens of a record of the all-tags parser are lower-case
TagsTokensLower(body) ==
    /\ body.namespace = Lower(body.namespace)
    /\ body.model_base_name = Lower(body.model_base_name)
    /\ \A i \in DOMAIN body.tags : body.tags[i].tag_part = Lower(body.tags[i].tag_part)

\* the stored tokens of the items of the listing parser are lower-case
ListingTokensLower(body) ==
    \A i \in DOMAIN body.items :
        /\ body.items[i].namespace = Lower(body.items[i].namespace)
        /\ body.items[i].model_base_name = Lower(body.items[i].model_base_name)

\* C9: every namespace, model_base_name and tag_part stored in a record of the listing,
\* model-detail and all-tags parsers is lower-case.
C9_StoredTokensLowerCase ==
    /\ ParserReturned("parse_model_page_html") => PageTokensLower(result.body)
    /\ ParserReturned("parse_all_tags_page_html") => TagsTokensLower(result.body)
    /\ ParserReturned("parse_list_or_search_page_html") => ListingTokensLower(result.body)

\* the displayed name is the canonical name alone, or the canonical name and ':' and a tag,
\* whatever its letter case
DisplayedNameMatches(text, name) ==
    \/ Lower(text) = name
    \/ /\ Len(text) > Len(name)
       /\ Lower(SubSeq(text, 1, Len(name))) = name
       /\ text[Len(name) + 1] = ":"

\* the tag that a matching displayed name carries
DisplayedTag(text, name) ==
    IF Lower(text) = name THEN <<"l","a","t","e","s","t">>
    ELSE SubSeq(text, Len(name) + 2, Len(text))

\* the canonical name of the model the caller asked the all-tags parser for
RequestedName == Lower(CanonicalModelName(args.namespace, args.model_base_name))

\* the rows whose displayed name matches, in page order
MatchingRows ==
    SelectSeq(args.doc.items, LAMBDA r : DisplayedNameMatches(r.text, RequestedName))

\* the rows that carry a name link with an href and whose displayed name matches
LinkedMatchingRows ==
    SelectSeq(args.doc.items,
              LAMBDA r : r.has_anchor /\ r.href # None
                         /\ DisplayedNameMatches(r.text, RequestedName))

\* the tags list is made of the rows rs, in their order
TagsAre(tags, rs) ==
    /\ Len(tags) = Len(rs)
    /\ \A i \in DOMAIN tags :
          /\ tags[i].tag_part = DisplayedTag(rs[i].text, RequestedName)
          /\ rs[i].href # None => tags[i].source_url = urljoin(rs[i].href)

\* C10, as claimed: the tags list holds exactly the rows whose displayed name matches
\* the canonical name of the requested model, in page order.
C10_KeptIffNameMatches ==
    ParserReturned("parse_all_tags_page_html") => TagsAre(result.body.tags, MatchingRows)

\* C10, amended: the tags list holds exactly the rows that carry a name link with an href
\* and whose displayed name, compared case-insensitively, is the canonical name of the
\* requested model alone (tag 'latest') or followed by ':' and a tag, in page order.
C10_KeptIffLinkedAndNameMatches ==
    ParserReturned("parse_all_tags_page_html") => TagsAre(result.body.tags, LinkedMatchingRows)

C10_Witness ==
    /\ ParserReturned("parse_all_tags_page_html")
    /\ Len(args.doc.items) = 2
    /\ args.doc.items[1].text = <<"q",":","t">>
    /\ args.doc.items[2].text = <<"M",":","T">>
    /\ Len(result.body.tags) = 1
    /\ result.body.tags[1].tag_part = <<"T">>

\* C11: the snippet 'arch: llama · 7b · Q4_0' gives arch 'llama', parameters '7B' and
\* quantization 'Q4_0'; a snippet that holds the key 'arch:', a blank and the value
\* 'llama' gives arch 'llama'.
C11_ExplicitKeyYieldsValue ==
    ParserReturned("parse_gguf_metadata_from_snippet") =>
        /\ args.doc.text = <<"a","r","c","h",":"," ","l","l","a","m","a"," ",MiddleDot," ",
                             "7","b"," ",MiddleDot," ","Q","4","_","0">> =>
              /\ result.body.arch = <<"l","l","a","m","a">>
              /\ result.body.parameters = <<"7","B">>
              /\ result.body.quantization = <<"Q","4","_","0">>
        /\ StartsWith(args.doc.text, <<"a","r","c","h",":"," ","l","l","a","m","a">>) =>
              result.body.arch = <<"l","l","a","m","a">>

\* a count text as the count normalizer reads it: trimmed, lower-cased, separators removed
CountText == Strip(Remove(Lower(args.doc.text), <<",">>))
IsPlainInteger(t) == t # << >> /\ AllChars(t, IsDigitChar)
NumericPrefix(t) == Strip(SubSeq(t, 1, Len(t) - 1))
HasSuffix(t, c) == t # << >> /\ t[Len(t)] = c /\ IsFloatLiteral(NumericPrefix(t))
IsScaledCount(t) == HasSuffix(t, "k") \/ HasSuffix(t, "m")

\* C12: parse_pull_count returns an integer for every input and never raises; it returns 0 for
\* the empty string and for every input that is neither a plain integer nor a numeric prefix
\* followed by a final 'k' or 'm'.
C12_PullCountNeverRaises ==
    Finished("parse_pull_count") =>
        /\ result.status = "returned"
        /\ ~IsPlainInteger(CountText) /\ ~IsScaledCount(CountText) => result.body.value = 0

\* the numeric prefix of t times c, for a prefix whose fraction c clears
PrefixTimes(t, c) ==
    DigitsNat(Remove(NumericPrefix(t), <<".">>)) * (c \div Pow10(FractionDigits(NumericPrefix(t))))

\* C13: an input that ends in 'k' gives its numeric prefix times 1,000, one that ends in 'm'
\* its numeric prefix times 1,000,000, and a plain integer gives itself.
C13_PullCountScalesBySuffix ==
    Finished("parse_pull_count") =>
        /\ HasSuffix(CountText, "k") =>
              result.status = "returned" /\ result.body.value = PrefixTimes(CountText, 1000)
        /\ HasSuffix(CountText, "m") =>
              result.status = "returned" /\ result.body.value = PrefixTimes(CountText, 1000000)
        /\ IsPlainInteger(CountText) =>
              result.status = "returned" /\ result.body.value = DigitsNat(CountText)

\* the power of 1024 that the unit of a size text stands for
UnitPower(t) ==
    IF HasUnit(Upper(t), S_KB, S_KIB) THEN 1
    ELSE IF HasUnit(Upper(t), S_MB, S_MIB) THEN 2
    ELSE IF HasUnit(Upper(t), S_GB, S_GIB) THEN 3
    ELSE IF HasUnit(Upper(t), S_TB, S_TIB) THEN 4
    ELSE 0

RECURSIVE BigTimes1024(_, _)
BigTimes1024(b, n) == IF n = 0 THEN b ELSE BigTimes1024(BigTimes(b, 1024, 0), n - 1)

\* the integer part of v * 1024^n in exact arithmetic, for the magnitude v that mag writes
ExactSize(mag, n) ==
    BigNat(Normal(BigDivMod(BigTimes1024(DigitsBig(Remove(mag, <<".">>)), n),
                            Pow10(FractionDigits(mag))).q))

\* C14: parse_size_str_to_bytes never raises; it returns the magnitude times 1024, 1024^2,
\* 1024^3 or 1024^4 for a KB, MB, GB or TB unit in either case, the integer part of the
\* magnitude when there is no unit, and 0 for an empty text or an unparsable magnitude.
C14_SizeInBytes ==
    Finished("parse_size_str_to_bytes") =>
        /\ result.status = "returned"
        /\ result.body.value =
              IF IsFloatLiteral(DigitsAndDots(args.doc.text))
              THEN ExactSize(DigitsAndDots(args.doc.text), UnitPower(args.doc.text))
              ELSE 0

\* an update text as the date normalizer reads it
DateText == Strip(Lower(args.doc.text))

\* the minutes of one unit: a month is 30 days, a year 365 days
UnitMinutes(u) ==
    IF u = S_minute THEN 1
    ELSE IF u = S_hour THEN 60
    ELSE IF u = S_day THEN MinutesPerDay
    ELSE IF u = S_week THEN 7 * MinutesPerDay
    ELSE IF u = S_month THEN 30 * MinutesPerDay
    ELSE 365 * MinutesPerDay

\* t is '<N> <unit> ago' or '<N> <unit>s ago'
IsCountOfUnits(t, n, u) ==
    \E p \in {<< >>, <<"s">>} : t = n \o <<" ">> \o u \o p \o <<" ">> \o S_ago_word

\* the minutes from 0001-01-01 00:00 to dt
MinuteOf(dt) == (dt.day - MinOrdinal) * MinutesPerDay + dt.minute

\* the result is the base time moved back by the given minutes
IsBaseMinus(minutes) ==
    /\ result.status = "returned"
    /\ MinuteOf(result.body.dt) = MinuteOf(args.doc.base_time) - minutes
    /\ result.body.dt.rest = args.doc.base_time.rest

\* C15: with base time T the date normalizer returns T for 'just now' and 'moments ago',
\* midnight of T's day minus 24 hours for 'yesterday', T minus N units for '<N> <unit>(s) ago',
\* and T itself, without raising, for any other text.
C15_RelativeDate ==
    Finished("parse_relative_date_to_datetime") =>
        /\ DateText \in {S_just_now, S_moments_ago} => IsBaseMinus(0)
        /\ DateText = S_yesterday =>
              /\ result.status = "returned"
              /\ result.body.dt = [day |-> args.doc.base_time.day - 1, minute |-> 0, rest |-> 0]
        /\ \A n \in DateValues, u \in DateUnits :
              IsCountOfUnits(DateText, n, u) => IsBaseMinus(DigitsNat(n) * UnitMinutes(u))
        /\ /\ ~IsSubstring(S_just_now, DateText) /\ ~IsSubstring(S_moments_ago, DateText)
           /\ ~IsSubstring(S_yesterday, DateText)
           /\ LeadLen(DateText, IsDigitChar) = 0
           => IsBaseMinus(0)

\* the blob-content fetches of a lookup, in order
BlobFetches == SelectSeq(fetched, LAMBDA f : f.kind = "blob")

\* the names of the text blobs, as the specification lists them
TextBlobNames ==
    { <<"p","a","r","a","m","s">>, <<"t","e","m","p","l","a","t","e">>,
      <<"l","i","c","e","n","s","e">>, <<"m","o","d","e","l","f","i","l","e">> }

\* the file entry that the lookup matched, if any
Matched == found # NoFile

\* every content fetch comes after a tag page was fetched, goes to the matched entry,
\* and that entry is a text blob
FetchOnlyAfterMatch ==
    \A i \in DOMAIN fetched :
        fetched[i].kind = "blob" =>
            /\ \E j \in 1..(i - 1) : fetched[j].kind = "page" /\ fetched[j].outcome = "200"
            /\ Matched /\ found.name \in TextBlobNames
            /\ FileMatches(found, Lower(args.blob_identifier))
            /\ fetched[i].url = found.blob_url

\* C16: a blob lookup fetches the content of the blob exactly when the matched entry is named
\* params, template, license or modelfile, and only after the tag page was fetched and the
\* entry matched; for 'model' it fetches nothing, runs the GGUF normalizer on the snippet and
\* leaves the text content absent; for any other name the text content is the snippet.
C16_ContentFetchIffTextBlob ==
    /\ FetchOnlyAfterMatch
    /\ Finished("get_blob_information") =>
          /\ BlobFetches # << >> <=> (Matched /\ found.name \in TextBlobNames)
          /\ Matched /\ found.name = <<"m","o","d","e","l">> =>
                /\ result.status = "200"
                /\ result.body.text_content = None
                /\ result.body.gguf_metadata_snippet = found.snippet
                /\ result.body.parsed_gguf_metadata =
                      parse_gguf_metadata_from_snippet(found.snippet)
          /\ Matched /\ found.name \notin TextBlobNames \cup {<<"m","o","d","e","l">>} =>
                /\ result.status = "200"
                /\ result.body.text_content = found.snippet

\* a lookup of 'model' that answered from the snippet alone
C16_Witness ==
    /\ Finished("get_blob_information") /\ Matched
    /\ found.name = <<"m","o","d","e","l">>
    /\ result.status = "200" /\ result.body.parsed_gguf_metadata.present
    /\ BlobFetches = << >>

\* the tag page that a blob lookup fetched was parsed, and these are its file entries
TagPageParsed ==
    /\ Finished("get_blob_information") /\ response # NoDoc
    /\ result.status # "raised"
TagPageFiles == TagFilesSummary(response).files

\* the requested blob token names the entry fs
TokenNames(fs) ==
    \/ Lower(args.blob_identifier) = Lower(fs.name)
    \/ /\ fs.digest # None
       /\ Len(args.blob_identifier) <= Len(fs.digest)
       /\ \A i \in DOMAIN args.blob_identifier :
             LowerChar(args.blob_identifier[i]) = LowerChar(fs.digest[i])

NamedEntries(files) == { i \in DOMAIN files : TokenNames(files[i]) }

\* the lookup matched an entry of files exactly when the token names one, and then one
\* that it names; with no match it ends as 404 without a content fetch
MatchesNamedEntry(files) ==
    /\ Matched <=> NamedEntries(files) # {}
    /\ Matched => \E i \in NamedEntries(files) : files[i] = found
    /\ ~Matched => result = [status |-> "404"] /\ BlobFetches = << >>

\* C17: the blob token in lower case matches a file entry exactly when it equals the entry's
\* name in lower case or is a prefix of the entry's digest in lower case; when no entry of
\* the tag page matches, the lookup ends as 404 and fetches no blob content.
C17_BlobTokenMatch == TagPageParsed => MatchesNamedEntry(TagPageFiles)

\* a tag page with file entries, none of which the token names
C17_Witness ==
    /\ TagPageParsed /\ ~Matched
    /\ TagPageFiles # << >>
    /\ result = [status |-> "404"]

\* the content fetch of the lookup succeeded, and this is the text taken from its body
ContentFetched ==
    /\ Finished("get_blob_information") /\ Matched
    /\ BlobFetches # << >> /\ BlobFetches[1].outcome = "200"
FetchedText ==
    IF BlobFetches[1].content.html THEN BlobFetches[1].content.pre
    ELSE BlobFetches[1].content.text

\* the texts that are structured content
IsJson(t) == t = <<"{","}">>

\* C18: when the fetched content of a 'params' blob is not decodable, the lookup still
\* succeeds with parsed_json_content absent and text_content holding the fetched text; for
\* template, license and modelfile parsed_json_content is always absent.
C18_DecodeFailureIsSwallowed ==
    ContentFetched =>
        /\ found.name = <<"p","a","r","a","m","s">> /\ ~IsJson(FetchedText) =>
              /\ result.status = "200"
              /\ result.body.parsed_json_content = None
              /\ result.body.text_content = FetchedText
        /\ found.name \in TextBlobNames \ {<<"p","a","r","a","m","s">>} =>
              /\ result.status = "200"
              /\ result.body.parsed_json_content = None

\* a 'params' blob whose content is a text that is no structured content
C18_Witness ==
    /\ ContentFetched /\ found.name = <<"p","a","r","a","m","s">>
    /\ FetchedText = <<"t","x","t">>
    /\ result.status = "200" /\ result.body.text_content = <<"t","x","t">>

\* the sources of the active tag, as the specification lists them; None for one that is missing
PathSegments == Split(StripChar(urlparse_path(args.page_url), "/"), "/")
TagInPath ==
    IF Len(PathSegments) >= 2 /\ HasChar(PathSegments[2], ":")
    THEN Lower(SplitFirst(PathSegments[2], ":")[2])
    ELSE None
HasRunCommand == args.doc.section /\ args.doc.has_command /\ args.doc.command_value # None
SelectedLabel ==
    IF args.doc.section /\ args.doc.button # None THEN Lower(args.doc.button) ELSE None
CommandSuffix ==
    IF HasRunCommand /\ HasChar(args.doc.command_value, ":")
    THEN Lower(AfterLast(args.doc.command_value, ":"))
    ELSE None
ImpliedLatest ==
    IF HasRunCommand /\ ~HasChar(args.doc.command_value, ":") THEN <<"l","a","t","e","s","t">>
    ELSE None
FirstRowTag ==
    IF result.body.all_tags_dropdown_summary # << >>
    THEN result.body.all_tags_dropdown_summary[1].tag_part
    ELSE None
ActiveTagSources == << TagInPath, SelectedLabel, CommandSuffix, ImpliedLatest, FirstRowTag >>

\* the active tag is the first of the sources that is present, and absent when none is
IsFirstPresent(active_tag_part, sources) ==
    IF \E i \in DOMAIN sources : Truthy(sources[i])
    THEN \E i \in DOMAIN sources :
            /\ Truthy(sources[i]) /\ active_tag_part = sources[i]
            /\ \A j \in 1..(i - 1) : ~Truthy(sources[j])
    ELSE ~Truthy(active_tag_part)

\* C19: on a model-detail page the active tag is the first present of: the tag in the request
\* path, the label of the selected tag control, the suffix after ':' of the run-command,
\* 'latest' for a run-command without a tag, the tag part of the first dropdown row; it is
\* absent only when none of them is present.
C19_ActiveTagPriority ==
    ParserReturned("parse_model_page_html") =>
        IsFirstPresent(result.body.active_tag_part, ActiveTagSources)

\* the path of the page URL is /<namespace>/<base>:<tag>
IsTagPath == Len(PathSegments) = 2 /\ HasChar(PathSegments[2], ":")

\* C20: for a page URL whose path is /<namespace>/<base>:<tag>, under 'library' or any other
\* namespace, parse_model_page_html takes <tag> as the active tag and <base>, without the
\* ':<tag>' suffix, as the base name that the path gives.
C20_TagPathSplitsBaseAndTag ==
    ParserReturned("parse_model_page_html") /\ IsTagPath =>
        /\ result.body.active_tag_part = Lower(SplitFirst(PathSegments[2], ":")[2])
        /\ args.doc.title = None =>
              result.body.model_base_name = Lower(SplitFirst(PathSegments[2], ":")[1])

\* the full name that the page reports about itself: the title attribute of the model-name
\* link on a model-detail page, the text of the title span in a listing row
ReportedName == args.doc.title
HasReportedName == args.doc.title # None
ReportedSplit == SplitFirst(Lower(ReportedName), "/")
OneListingRow == args.doc.items[1]
RowReportsName(item_li) == item_li.href # None /\ item_li.h2 # None /\ item_li.title_span

\* the identity of a record is that of a reported name: split at its first '/' when it has
\* one, the base name alone when it has none and the path gave the default namespace
FollowsReportedName(rec, name, path_namespace) ==
    /\ HasChar(name, "/") =>
          /\ rec.namespace = SplitFirst(Lower(name), "/")[1]
          /\ rec.model_base_name = SplitFirst(Lower(name), "/")[2]
    /\ ~HasChar(name, "/") /\ path_namespace = S_library =>
          rec.model_base_name = Lower(name)
    /\ ~HasChar(rec.model_base_name, "/")

\* C21: in the listing and model-detail parsers a self-reported full name with a '/' is split
\* at the first '/' into namespace and base name, both replacing what the path gave whatever
\* the namespace of the path is; one without '/' is the base name when the namespace is the
\* default; the base name of the record never contains '/'.
C21_ReportedNameOverridesPath ==
    /\ ParserReturned("parse_model_page_html") /\ HasReportedName =>
          FollowsReportedName(result.body, ReportedName, PathIdentity(args.page_url).namespace)
    /\ ParserReturned("parse_list_or_search_page_html") /\ Len(args.doc.items) = 1
         /\ RowReportsName(OneListingRow) /\ Len(result.body.items) = 1 =>
          FollowsReportedName(result.body.items[1], OneListingRow.h2,
                              ListingPathIdentity(urljoin(OneListingRow.href)).namespace)

\* the content page that the lookup fetched is HTML without a preformatted text block
ContentPageWithoutPre ==
    /\ ContentFetched
    /\ BlobFetches[1].content.html /\ BlobFetches[1].content.pre = None

\* C22: when the fetched content page of a text blob has no preformatted text block, the
\* content parser returns a null result and the blob lookup answers with the listing snippet of
\* the file entry as the text content of the record.
C22_NoPreUsesSnippet ==
    ContentPageWithoutPre =>
        /\ parse_blob_content_page_html(BlobFetches[1].content) = None
        /\ result.status = "200"
        /\ result.body.text_content = found.snippet

\* a listing row resolves to a base name when it has a link and a name comes from the title
\* span, from the second segment of the link's path or from the title attribute
RowPath(item_li) == Split(StripChar(urlparse_path(urljoin(item_li.href)), "/"), "/")
RowResolves(item_li) ==
    /\ item_li.href # None
    /\ \/ Len(RowPath(item_li)) >= 2 /\ RowPath(item_li)[2] # << >>
       \/ item_li.h2 # None /\ item_li.title_span /\ Strip(item_li.h2) # << >>
       \/ item_li.title_div # None /\ item_li.title_div # << >>
ResolvedRows == SelectSeq(args.doc.items, RowResolves)

\* C23: parse_list_or_search_page_html returns one record for each row that resolves to a
\* non-empty base name, in page order, and drops the rows without a link or without a base
\* name; no row makes the listing fail or removes another row.
C23_ListingIsBestEffort ==
    (pc = "done" /\ op = "parse_list_or_search_page_html") =>
        /\ result.status = "returned"
        /\ Len(result.body.items) = Len(ResolvedRows)
        /\ \A i \in DOMAIN ResolvedRows :
              result.body.items[i].source_url = urljoin(ResolvedRows[i].href)

\* the timestamp iso is the relative parsing of text, against one of the base times
IsRelativeParsing(iso, text, base_times) ==
    \E b \in base_times :
        /\ ~Raised(parse_relative_date_to_datetime(text, b))
        /\ iso = IsoFormat(parse_relative_date_to_datetime(text, b).dt)

\* the last-updated fields of rec follow the marker with text updated and absolute title
FollowsMarker(rec, updated, title) ==
    /\ updated = None =>
          rec.last_updated_str = << >> /\ rec.last_updated_iso = IsoFormat(now)
    /\ updated # None /\ Truthy(title) =>
          rec.last_updated_iso = IsoFormat(parse_ollama_absolute_date_str(title, now).dt)
    /\ updated # None /\ ~Truthy(title) =>
          IsRelativeParsing(rec.last_updated_iso, updated, {now, ImportTime})

\* C24: in the listing and model-detail parsers the last-updated timestamp is the absolute
\* parsing of the title that accompanies the updated marker when that title is not empty, the
\* relative parsing of the marker's text otherwise, and the current time, with
\* last_updated_str "", when the marker is missing.
C24_AbsoluteBeforeRelative ==
    /\ ParserReturned("parse_model_page_html") =>
          FollowsMarker(result.body, args.doc.updated, args.doc.updated_title)
    /\ ParserReturned("parse_list_or_search_page_html")
         /\ Len(result.body.items) = Len(ResolvedRows) =>
          \A i \in DOMAIN ResolvedRows :
              FollowsMarker(result.body.items[i], ResolvedRows[i].updated,
                            ResolvedRows[i].updated_title)

C24_Witness ==
    /\ ParserReturned("parse_list_or_search_page_html")
    /\ Len(args.doc.items) = 1
    /\ args.doc.items[1].updated = <<"2"," ","d","a","y","s"," ","a","g","o">>
    /\ StartsWith(args.doc.items[1].updated_title, <<"N","o","v"," ","1",",">>)
    /\ Len(result.body.items) = 1
    /\ result.body.items[1].last_updated_iso
         = <<"2","0","2","6","-","1","1","-","0","1","T","2","1",":","0","5",":","0","0",
             "+","0","0",":","0","0">>

\* the tokens of the snippet, as they are written, and the last of a sequence
SnippetTokens == GgufParts(Strip(args.doc.text))
Last(s) == s[Len(s)]

\* the values of the explicit tokens of each key, in the order of the snippet
ArchValues ==
    [i \in DOMAIN SelectSeq(SnippetTokens, LAMBDA t : StartsWith(Lower(t), S_arch_key)) |->
        Drop(SelectSeq(SnippetTokens, LAMBDA t : StartsWith(Lower(t), S_arch_key))[i],
             Len(S_arch_key))]
ParametersValues ==
    [i \in DOMAIN SelectSeq(SnippetTokens, LAMBDA t : StartsWith(Lower(t), S_parameters_key)) |->
        Drop(SelectSeq(SnippetTokens, LAMBDA t : StartsWith(Lower(t), S_parameters_key))[i],
             Len(S_parameters_key))]
QuantizationValues ==
    [i \in DOMAIN SelectSeq(SnippetTokens, LAMBDA t : StartsWith(Lower(t), S_quantization_key)) |->
        Drop(SelectSeq(SnippetTokens, LAMBDA t : StartsWith(Lower(t), S_quantization_key))[i],
             Len(S_quantization_key))]

\* the tokens without a key that have the heuristic shape of each key
IsKeyless(t) == ~HasChar(t, ":")
ArchLike ==
    SelectSeq(SnippetTokens,
              LAMBDA t : IsKeyless(t) /\ IsWord(Lower(t)) /\ \A i \in DOMAIN t : ~IsDigitChar(t[i]))
ParametersLike ==
    SelectSeq(SnippetTokens, LAMBDA t : IsKeyless(t) /\ MatchesParameterCount(Lower(t)))
QuantizationLike ==
    SelectSeq(SnippetTokens,
              LAMBDA t : IsKeyless(t)
                         /\ (MatchesQuantCode(Lower(t)) \/ Lower(t) \in KnownQuantCodes))

\* the last explicit value, else the first token of the heuristic shape, else nothing
LastOrFirst(explicit, heuristic) ==
    IF explicit # << >> THEN Last(explicit)
    ELSE IF heuristic # << >> THEN heuristic[1]
    ELSE None
UpperOrNone(v) == IF v = None THEN None ELSE Upper(v)
LowerOrNone(v) == IF v = None THEN None ELSE Lower(v)

SomeTokenSetsAKey ==
    \/ ArchValues # << >> \/ ParametersValues # << >> \/ QuantizationValues # << >>
    \/ ArchLike # << >> \/ ParametersLike # << >> \/ QuantizationLike # << >>

\* C25, as claimed: each of arch, parameters and quantization is the value of the last
\* explicit key:value token of its key, parameters and quantization upper-cased, and
\* otherwise the first key-less token of the key's heuristic shape; the result is absent iff
\* no token sets a key.
C25_LastExplicitElseFirstHeuristic ==
    ParserReturned("parse_gguf_metadata_from_snippet") =>
        /\ result.body.arch = LastOrFirst(ArchValues, ArchLike)
        /\ result.body.parameters = UpperOrNone(LastOrFirst(ParametersValues, ParametersLike))
        /\ result.body.quantization
             = UpperOrNone(LastOrFirst(QuantizationValues, QuantizationLike))
        /\ result.body.present <=> SomeTokenSetsAKey

\* C25, amended: each of arch, parameters and quantization is the value of the last explicit
\* key:value token of its key, and otherwise the first key-less token of the key's heuristic
\* shape, arch lower-cased and parameters and quantization upper-cased; a heuristic token
\* never replaces an explicit value; the result is absent iff no token sets a key.
C25_LastExplicitElseFirstHeuristicFolded ==
    ParserReturned("parse_gguf_metadata_from_snippet") =>
        /\ result.body.arch = LowerOrNone(LastOrFirst(ArchValues, ArchLike))
        /\ result.body.parameters = UpperOrNone(LastOrFirst(ParametersValues, ParametersLike))
        /\ result.body.quantization
             = UpperOrNone(LastOrFirst(QuantizationValues, QuantizationLike))
        /\ result.body.present <=> SomeTokenSetsAKey

C25_Witness ==
    /\ ParserReturned("parse_gguf_metadata_from_snippet")
    /\ Len(SnippetTokens) = 3
    /\ SnippetTokens[1] = <<"a","r","c","h",":","l","l","a","m","a">>
    /\ SnippetTokens[2] = <<"A","r","c","h",":","M","i","s","t","r","a","l">>
    /\ SnippetTokens[3] = <<"g","e","m","m","a","2">>
    /\ result.body.arch = <<"m","i","s","t","r","a","l">>

\* C26: every relative-date conversion of a page parser or of the blob lookup takes the
\* current time of the call as its base time: '2 days ago' parsed at time T gives T minus
\* 48 hours, for every T, and not a time fixed when the module was loaded.
C26_RelativeToCallTime ==
    /\ ParserReturned("parse_model_page_html")
         /\ args.doc.updated # None /\ ~Truthy(args.doc.updated_title) =>
          IsRelativeParsing(result.body.last_updated_iso, args.doc.updated, {now})
    /\ ParserReturned("parse_list_or_search_page_html")
         /\ Len(result.body.items) = Len(ResolvedRows) =>
          \A i \in DOMAIN ResolvedRows :
              ResolvedRows[i].updated # None /\ ~Truthy(ResolvedRows[i].updated_title) =>
                  IsRelativeParsing(result.body.items[i].last_updated_iso,
                                    ResolvedRows[i].updated, {now})
    /\ Finished("get_blob_information") /\ result.status = "200"
         /\ found.updated_str = <<"2"," ","d","a","y","s"," ","a","g","o">> =>
          result.body.listing_updated_iso.dt
             = [day |-> now.day - 2, minute |-> now.minute, rest |-> now.rest]

\* C27: in every tag-detail response active_tag_full_name is name_full_model, ':' and
\* active_tag_part, and the name_full_tag of each dropdown entry is name_full_model, ':' and
\* the entry's tag_part: what the endpoint writes from the request agrees with the identity
\* that the parser took from the page.
C27_TagNamesAgreeWithModelName ==
    (Finished("get_specific_tag_details") /\ result.status = "200") =>
        /\ result.body.active_tag_full_name
             = result.body.name_full_model \o Colon \o result.body.active_tag_part
        /\ \A i \in DOMAIN result.body.all_tags_dropdown_summary :
              result.body.all_tags_dropdown_summary[i].name_full_tag
                 = result.body.name_full_model \o Colon
                   \o result.body.all_tags_dropdown_summary[i].tag_part

\* C28: when the content fetch of a text blob fails, by an exception or an error status, the
\* blob lookup still succeeds with the listing snippet of the file entry as text content, no
\* structured content and the provenance of the tag-page fetch; when the content fetch
\* succeeds the provenance is that of the content fetch.
C28_FailedContentFetchUsesSnippet ==
    (Finished("get_blob_information") /\ Matched /\ BlobFetches # << >>) =>
        IF BlobFetches[1].outcome # "200"
        THEN /\ result.status = "200"
             /\ result.body.text_content = found.snippet
             /\ result.body.parsed_json_content = None
             /\ result.body.cache_info = "tag_page"
        ELSE result.status = "200" /\ result.body.cache_info = "blob_content"

C28_Witness ==
    /\ Finished("get_blob_information") /\ Matched
    /\ found.name = <<"t","e","m","p","l","a","t","e">>
    /\ Len(BlobFetches) = 1 /\ BlobFetches[1].outcome = "exception"
    /\ result.status = "200"
    /\ result.body.text_content = <<"t","x","t">>
    /\ result.body.cache_info = "tag_page"

\* the rows the parser returns for the page the endpoint received
ParsedRows == parse_list_or_search_page_html(response, now).items

\* the filter of the request names capabilities: it is neither missing nor empty
HasFilter == args.c # None /\ args.c # << >>

\* row i of the parsed page has every capability the request names between its commas,
\* once trimmed and lower-cased
RowPasses(i) ==
    HasFilter =>
        \A j \in DOMAIN Split(args.c, ",") :
            \E k \in DOMAIN ParsedRows[i].capabilities :
                ParsedRows[i].capabilities[k] = Strip(Lower(Split(args.c, ",")[j]))

PassingRows == { i \in DOMAIN ParsedRows : RowPasses(i) }

\* the n-th passing row of the page
NthPassing(n) ==
    CHOOSE i \in PassingRows : Cardinality({ j \in PassingRows : j <= i }) = n

\* C29: a listing endpoint answers an unaccepted sort order with 400 and fetches nothing;
\* otherwise, when it answers 200, its results are the parsed rows that have every
\* requested capability, all parsed rows when the request has no filter, in page order.
C29_ResultsAreTheRowsWithEveryCapability ==
    (op \in Listings /\ pc = "done") =>
        /\ (args.o \notin { <<"p","o","p","u","l","a","r">>, <<"n","e","w","e","s","t">> })
              <=> (result.status = "400")
        /\ result.status = "400" => fetched = << >>
        /\ result.status = "200" =>
              /\ Len(result.body.results) = Cardinality(PassingRows)
              /\ \A n \in DOMAIN result.body.results :
                    result.body.results[n] = ParsedRows[NthPassing(n)]

C29_Witness ==
    /\ op = "search_models" /\ pc = "done"
    /\ args.c = <<"V","i","s","i","o","n",","," ","t","o","o","l","s">>
    /\ result.status = "200"
    /\ Len(ParsedRows) = 2
    /\ ParsedRows[1].capabilities = << <<"v","i","s","i","o","n">> >>
    /\ Len(result.body.results) = 1
    /\ result.body.results[1] = ParsedRows[2]

\* the sizes of the pong bodies of the first n requests, added up
SumOfPongSizes(n) == n * Len(PongBody)

\* C30: the n-th /ping request reports as total_pings the number of pings so far, its
\* own counted or not, and at most the window of 100; and as total bandwidth the sum of
\* the pong response sizes of all n requests, in kilobytes rounded to hundredths.
C30_PingCountsAndBandwidth ==
    (op = "ping" /\ pc = "done") =>
        /\ \/ result.body.total_pings = IF pings_answered < 100 THEN pings_answered ELSE 100
           \/ result.body.total_pings = IF pings_answered - 1 < 100 THEN pings_answered - 1 ELSE 100
        /\ result.body.total_bandwidth_sent_kb
              = RoundHundredths(SumOfPongSizes(pings_answered), 1024)

====
